---------------------------- MODULE Spec2Model ----------------------------
(***************************************************************************)
(* A model of the DV360 MCP adapter: the credential configuration          *)
(* (config.py), the two API clients with their lazily built, memoized      *)
(* service handle (dv360_client.py, bid_manager_client.py) and the three   *)
(* server variants' resource and tool dispatch (server.py,                 *)
(* dv360_server.py, server_minimal.py).                                    *)
(*                                                                         *)
(* The specifications share the variables:                                 *)
(*   SpecConfig      the Config object, the process environment and the    *)
(*                   file system, with calls of validate and               *)
(*                   get_credentials_type;                                 *)
(*   Spec            protocol requests served one at a time by a server,   *)
(*                   each request run step by step down to the handle      *)
(*                   build and the remote requests;                        *)
(*   SpecStartup     the same from a process that has yet to construct     *)
(*                   the server, with the max_retries and timeout_seconds  *)
(*                   settings read from the environment;                   *)
(*   SpecPure        the client-side filters and the advertiser summary    *)
(*                   applied to listings drawn from bounded sets;          *)
(*   SpecConcurrent  two requests whose coroutines interleave at their     *)
(*                   awaits.                                               *)
(***************************************************************************)
EXTENDS Naturals, Sequences, FiniteSets, TLC

VARIABLES
    env,        \* process environment: variable name -> value (Unset when absent)
    fs,         \* the paths that exist on disk
    cfg,        \* the Config object's credential fields
    typeSeen,   \* the get_credentials_type calls on cfg so far: fields, result
    valSeen,    \* the validate calls on cfg so far: fields, disk, result
    service,    \* client -> memoized service handle (None or a handle id)
    builds,     \* client -> number of handle builds started so far
    calls,      \* number of protocol requests started so far
    task,       \* request slot -> the request being served and how far it got
    server,     \* the server process: "absent", "serving" or "crashed"
    settings,   \* the Config object's server settings: max_retries, timeout_seconds
    elapsed,    \* the longest a remote request of the current call was waited for
    input,      \* the listings a client method is applied to
    output      \* what the method returned for them

cfgVars == <<env, fs, cfg, typeSeen, valSeen>>
runVars == <<service, builds, calls, task>>
procVars == <<server, settings, elapsed>>
pureVars == <<input, output>>
vars == <<env, fs, cfg, typeSeen, valSeen, service, builds, calls, task,
          server, settings, elapsed, input, output>>

---------------------------------------------------------------------------
(* Bounds of the model.                                                    *)

\* protocol requests started in one behaviour
MaxCalls == 2
\* entries of a remote listing
MaxListing == 1
\* the reports one report listing holds at most
MaxReports == 2

---------------------------------------------------------------------------
(* config.py                                                               *)

\* os.getenv gives None for a variable that is not set
Unset == "<unset>"
SaPath == "/keys/sa.json"

EnvNames == {"GOOGLE_APPLICATION_CREDENTIALS", "OAUTH_CLIENT_ID",
             "OAUTH_CLIENT_SECRET", "OAUTH_REFRESH_TOKEN"}

EnvValues(n) ==
    IF n = "GOOGLE_APPLICATION_CREDENTIALS" THEN {Unset, "", SaPath}
    ELSE {Unset, "", "secret-value"}

Envs == {e \in [EnvNames -> {Unset, "", SaPath, "secret-value"}] :
            \A n \in EnvNames : e[n] \in EnvValues(n)}

\* Python truthiness of an Optional[str]: None and "" are false
Truthy(v) == v # Unset /\ v # ""

\* Config.__post_init__: the four credential fields are read from the environment
PostInit(e) ==
    [google_application_credentials |-> e["GOOGLE_APPLICATION_CREDENTIALS"],
     oauth_client_id |-> e["OAUTH_CLIENT_ID"],
     oauth_client_secret |-> e["OAUTH_CLIENT_SECRET"],
     oauth_refresh_token |-> e["OAUTH_REFRESH_TOKEN"]]

\* os.path.exists
PathExists(p, files) == p \in files

get_credentials_type_oauth_first(c) ==
    IF Truthy(c.oauth_client_id) THEN "oauth"
    ELSE IF Truthy(c.google_application_credentials) THEN "service_account"
    ELSE "none"

\* Config.get_credentials_type
get_credentials_type(c) ==
    IF Truthy(c.google_application_credentials) THEN "service_account"
    ELSE IF Truthy(c.oauth_client_id) THEN "oauth"
    ELSE "none"

validate_any_oauth_value(c, files) ==
    IF Truthy(c.google_application_credentials)
    THEN PathExists(c.google_application_credentials, files)
    ELSE \/ Truthy(c.oauth_client_id)
         \/ Truthy(c.oauth_client_secret)
         \/ Truthy(c.oauth_refresh_token)

validate_reads_environment(c, files) ==
    IF Truthy(PostInit(env).google_application_credentials)
    THEN PathExists(PostInit(env).google_application_credentials, files)
    ELSE /\ Truthy(PostInit(env).oauth_client_id)
         /\ Truthy(PostInit(env).oauth_client_secret)
         /\ Truthy(PostInit(env).oauth_refresh_token)

\* Config.validate
validate(c, files) ==
    IF Truthy(c.google_application_credentials)
    THEN PathExists(c.google_application_credentials, files)
    ELSE /\ Truthy(c.oauth_client_id)
         /\ Truthy(c.oauth_client_secret)
         /\ Truthy(c.oauth_refresh_token)

\* the Config fields after a call of validate or get_credentials_type:
\* neither method assigns to self
FieldsAfterCall(c) == c

\* Config(): a new object, its fields taken from the environment as it is now
Construct ==
    /\ cfg' = PostInit(env)
    /\ typeSeen' = {}
    /\ valSeen' = {}
    /\ UNCHANGED <<env, fs>>
    /\ UNCHANGED runVars
    /\ UNCHANGED procVars
    /\ UNCHANGED pureVars

\* the process environment changes after the Config was constructed
SetEnv ==
    \E n \in EnvNames : \E v \in EnvValues(n) :
        /\ v # env[n]
        /\ env' = [env EXCEPT ![n] = v]
        /\ UNCHANGED <<fs, cfg, typeSeen, valSeen>>
        /\ UNCHANGED runVars
        /\ UNCHANGED procVars
        /\ UNCHANGED pureVars

\* the credential file is created or removed
TouchFile ==
    /\ fs' = IF SaPath \in fs THEN fs \ {SaPath} ELSE fs \cup {SaPath}
    /\ UNCHANGED <<env, cfg, typeSeen, valSeen>>
    /\ UNCHANGED runVars
    /\ UNCHANGED procVars
    /\ UNCHANGED pureVars

\* a caller (final_verification.py) calls config.get_credentials_type()
CallGetCredentialsType ==
    /\ typeSeen' = typeSeen \cup {[fields |-> cfg,
                                   after |-> FieldsAfterCall(cfg),
                                   envChanged |-> PostInit(env) # cfg,
                                   result |-> get_credentials_type(cfg)]}
    /\ cfg' = FieldsAfterCall(cfg)
    /\ UNCHANGED <<env, fs, valSeen>>
    /\ UNCHANGED runVars
    /\ UNCHANGED procVars
    /\ UNCHANGED pureVars

\* a caller calls config.validate()
CallValidate ==
    /\ valSeen' = valSeen \cup {[fields |-> cfg,
                                 after |-> FieldsAfterCall(cfg),
                                 envChanged |-> PostInit(env) # cfg,
                                 exists |-> PathExists(cfg.google_application_credentials, fs),
                                 result |-> validate(cfg, fs)]}
    /\ cfg' = FieldsAfterCall(cfg)
    /\ UNCHANGED <<env, fs, typeSeen>>
    /\ UNCHANGED runVars
    /\ UNCHANGED procVars
    /\ UNCHANGED pureVars

---------------------------------------------------------------------------
(* Properties of the configuration (specification SpecConfig).             *)

Modes == {"service_account", "oauth", "none"}

\* C6: every get_credentials_type call returns exactly one of the three
\* modes: service_account when the file path field is non-empty, whatever
\* the OAuth fields hold; oauth when the path is empty and the client id is
\* non-empty; none otherwise.
C6_ModeByPrecedence ==
    \A o \in typeSeen :
        /\ o.result \in Modes
        /\ Truthy(o.fields.google_application_credentials)
               => o.result = "service_account"
        /\ (~Truthy(o.fields.google_application_credentials)
               /\ Truthy(o.fields.oauth_client_id)) => o.result = "oauth"
        /\ (~Truthy(o.fields.google_application_credentials)
               /\ ~Truthy(o.fields.oauth_client_id)) => o.result = "none"

\* a call made with both the file path and the OAuth client id set
C6_Witness ==
    \E o \in typeSeen :
        /\ Truthy(o.fields.google_application_credentials)
        /\ Truthy(o.fields.oauth_client_id)
        /\ o.result = "service_account"

\* C7: validate() is true in service-account mode exactly when the file the
\* path names exists, true in oauth mode exactly when client id, client
\* secret and refresh token are all non-empty, and false in mode none.
C7_ValidateByMode ==
    \A o \in valSeen :
        /\ get_credentials_type(o.fields) = "service_account"
               => (o.result <=> o.exists)
        /\ get_credentials_type(o.fields) = "oauth"
               => (o.result <=> /\ Truthy(o.fields.oauth_client_id)
                                /\ Truthy(o.fields.oauth_client_secret)
                                /\ Truthy(o.fields.oauth_refresh_token))
        /\ get_credentials_type(o.fields) = "none" => o.result = FALSE

\* a validate call in oauth mode with the client secret missing
C7_Witness ==
    \E o \in valSeen :
        /\ get_credentials_type(o.fields) = "oauth"
        /\ ~Truthy(o.fields.oauth_client_secret)
        /\ o.result = FALSE

\* C8 as stated: neither method modifies a field, and on one Config object
\* every call of get_credentials_type gives the same result and every call
\* of validate gives the same result, whatever happened in between.
C8_ResultsFixedAtConstruction ==
    /\ \A o \in typeSeen \cup valSeen : o.after = o.fields /\ o.fields = cfg
    /\ \A o1, o2 \in typeSeen : o1.result = o2.result
    /\ \A o1, o2 \in valSeen : o1.result = o2.result

\* C8, amended: neither method modifies a field; get_credentials_type
\* depends only on the captured fields; validate depends on the captured
\* fields and, in service-account mode only, on whether the file exists when
\* it is called; a change of the environment variables after construction
\* changes neither result.
C8_ResultsFixedUpToDisk ==
    /\ \A o \in typeSeen \cup valSeen : o.after = o.fields /\ o.fields = cfg
    /\ \A o1, o2 \in typeSeen : o1.result = o2.result
    /\ \A o1, o2 \in valSeen :
           o1.result # o2.result
               => /\ get_credentials_type(cfg) = "service_account"
                  /\ o1.exists # o2.exists

\* both methods were called before and after the environment changed to one
\* that would give another mode and another validity
C8_Witness ==
    /\ \E o1, o2 \in typeSeen : ~o1.envChanged /\ o2.envChanged
    /\ \E o1, o2 \in valSeen : ~o1.envChanged /\ o2.envChanged
    /\ get_credentials_type(PostInit(env)) # get_credentials_type(cfg)
    /\ validate(PostInit(env), fs) # validate(cfg, fs)

---------------------------------------------------------------------------
(* Values, exceptions and the steps of a running coroutine.                *)
(*                                                                         *)
(* A text is a sequence of tokens: the literal pieces of the f-string that *)
(* builds it and the values substituted into it.  An operation is a        *)
(* function from the outcomes of the awaits it has made so far (its        *)
(* history) to what it does next: call _get_service, issue a remote        *)
(* request, return a value or raise.                                       *)

Clients == {"dv360", "bid_manager"}
\* self.service = None
None == 0

Exc(type, msg) == [type |-> type, msg |-> msg]
NoExc == Exc("", <<>>)

\* str(KeyError(k)) is the repr of the key
KeyError(k) == Exc("KeyError", <<"'", k, "'">>)
AttributeError(cls, attr) ==
    Exc("AttributeError", <<"'", cls, "' object has no attribute '", attr, "'">>)
ValueError(msg) == Exc("ValueError", msg)
\* what request.execute() raises: googleapiclient.errors.HttpError, or a transport error
HttpError == Exc("HttpError", <<"<HttpError 4xx/5xx>">>)
\* what build() or the credential constructor raises for reasons outside the program
BuildError == Exc("BuildError", <<"<credential exchange failed>">>)
FileNotFoundError == Exc("FileNotFoundError", <<"No such file or directory: ", SaPath>>)

\* a request whose parameters, other than the filter expression, are not looked at
NoBody == [kind |-> "none"]

Svc(c) == [eff |-> "svc", client |-> c]
\* a request built with the parameters body
ReqBody(c, kind, handle, filter, body) ==
    [eff |-> "req", client |-> c, kind |-> kind, handle |-> handle, filter |-> filter,
     body |-> body]
Req(c, kind, handle, filter) == ReqBody(c, kind, handle, filter, NoBody)
\* await asyncio.sleep(secs)
Sleep(secs) == [eff |-> "sleep", secs |-> secs]
Ret(v) == [eff |-> "ret", val |-> v]
Raise(x) == [eff |-> "raise", exc |-> x]
Terminal(e) == e.eff \in {"ret", "raise"}

\* one awaited outcome in a history
Outcome(eff, c, kind, handle, filter, ok, built, resp, exc) ==
    [eff |-> eff, client |-> c, kind |-> kind, handle |-> handle, filter |-> filter,
     ok |-> ok, built |-> built, resp |-> resp, exc |-> exc, body |-> NoBody]
\* the outcome of the awaited request p
Answered(p, ok, resp, exc) ==
    [Outcome("req", p.client, p.kind, p.handle, p.filter, ok, FALSE, resp, exc)
        EXCEPT !.body = p.body]

Prefix(h, n) == SubSeq(h, 1, n)
\* the first n outcomes of h, all of h when it is shorter
Upto(h, n) == IF Len(h) < n THEN h ELSE SubSeq(h, 1, n)
Rest(h, n) == SubSeq(h, n + 1, Len(h))
\* how many outcomes of h the operation P consumed before it ended
Used(P(_), h) ==
    CHOOSE n \in 0..Len(h) :
        /\ Terminal(P(Prefix(h, n)))
        /\ \A m \in 0..(n - 1) : ~Terminal(P(Prefix(h, m)))

\* `v = await P(...)` and then the rest K of the method: P sees the outcomes
\* it consumes, K the value P returned and the outcomes after them; an
\* exception P raises leaves the method
Then(P(_), K(_, _), h) ==
    IF P(h).eff = "ret" THEN K(P(h).val, Rest(h, Used(P, h))) ELSE P(h)

\* values the operations return
ListVal(items) == [kind |-> "list", items |-> items]
DictVal(tag) == [kind |-> "dict", tag |-> tag]
\* {'error': str(e)}: a mapping with the error field only
ErrVal(msg) == [kind |-> "error", msg |-> msg]

\* dict.get(k, default) on an entry of a listing: a field the remote side
\* left out is absent from the record
DictGet(d, k, default) == IF k \in DOMAIN d THEN d[k] ELSE default

\* one entry of params.filters in the body of a report query
QueryFilter(type, value) == [type |-> type, value |-> value]

\* the body of queries().create: params.filters and params.metrics
QueryBody(filters, metrics) ==
    [kind |-> "query body", filters |-> filters, metrics |-> metrics]

---------------------------------------------------------------------------
(* The remote API: what a request can answer.                              *)

ACTIVE == "ENTITY_STATUS_ACTIVE"
PAUSED == "ENTITY_STATUS_PAUSED"

AdvertiserIds == {"adv1", "adv2"}

\* the reports a query has generated: key.reportId, the time the report was
\* created (later is larger) and metadata.googleCloudStoragePath
GeneratedReports ==
    {[id |-> "r1", created |-> 1, path |-> "gs://reports/r1"],
     [id |-> "r2", created |-> 2, path |-> "gs://reports/r2"]}

\* the entries a listing of this kind can hold: id, entityStatus, displayName
\* and, for a report query, the advertiser its FILTER_ADVERTISER filter names
Entities(kind) ==
    IF kind = "partners.list"
    THEN {[id |-> "p1", status |-> ACTIVE, name |-> "Partner", adv |-> ""]}
    ELSE IF kind = "advertisers.list"
         THEN {[id |-> a, status |-> ACTIVE, name |-> "Advertiser", adv |-> a] :
                  a \in AdvertiserIds}
    ELSE IF kind = "campaigns.list"
         THEN {[id |-> "c1", status |-> ACTIVE, name |-> "Spring Sale", adv |-> "adv1"],
               [id |-> "c2", status |-> PAUSED, name |-> "Autumn", adv |-> "adv1"]}
    ELSE IF kind = "queries.list"
         THEN {[id |-> "q1", status |-> ACTIVE, name |-> "Report", adv |-> a] :
                  a \in AdvertiserIds}
    ELSE IF kind = "reports.list" THEN GeneratedReports
    ELSE {[id |-> "e1", status |-> ACTIVE, name |-> "Entity", adv |-> "adv1"]}

\* how many entries a listing of this kind holds at most
MaxEntries(kind) == IF kind = "reports.list" THEN MaxReports ELSE MaxListing

\* a listing holds up to MaxEntries(kind) entries, no entity twice
Listings(kind) ==
    {s \in UNION {[1..n -> Entities(kind)] : n \in 0..MaxEntries(kind)} :
        \A i, j \in 1..Len(s) : s[i] = s[j] => i = j}

IsListing(kind) ==
    kind \in {"partners.list", "advertisers.list", "campaigns.list",
              "insertionOrders.list", "lineItems.list", "creatives.list",
              "audiences.list", "queries.list", "reports.list"}

\* the bodies a successful request of this kind can answer with
Responses(kind) ==
    IF IsListing(kind) THEN Listings(kind)
    ELSE IF kind = "queries.create" THEN {[queryId |-> "q1"], [kind |-> "query"]}
    ELSE {[id |-> "e1", status |-> ACTIVE]}

---------------------------------------------------------------------------
(* dv360_client.py, bid_manager_client.py: the service handle.            *)

BuildFailures_without_message(c, files) ==
    IF /\ get_credentials_type(c) = "service_account"
       /\ ~PathExists(c.google_application_credentials, files)
    THEN {FileNotFoundError}
    ELSE {BuildError}

\* _get_credentials seen from _build_service: the exceptions a build can end in
BuildFailures(c, files) ==
    IF get_credentials_type(c) = "none"
    THEN {ValueError(<<"No valid credentials configured">>)}
    ELSE IF /\ get_credentials_type(c) = "service_account"
            /\ ~PathExists(c.google_application_credentials, files)
         THEN {FileNotFoundError}
    ELSE {BuildError}

\* whether a build can succeed
BuildCanSucceed(c, files) ==
    /\ get_credentials_type(c) # "none"
    /\ get_credentials_type(c) = "service_account"
         => PathExists(c.google_application_credentials, files)

NeedsBuild_always(svc) == TRUE

\* _get_service: `if self.service is None`
NeedsBuild(svc) == svc = None

OneRequest_retries_request(c, kind, filter, h) ==
    IF Len(h) = 0 THEN Svc(c)
    ELSE IF ~h[1].ok THEN Raise(h[1].exc)
    ELSE IF Len(h) = 1 THEN Req(c, kind, h[1].handle, filter)
    ELSE IF ~h[Len(h)].ok /\ Len(h) - 2 < settings.max_retries
         THEN Req(c, kind, h[1].handle, filter)
    ELSE IF ~h[Len(h)].ok THEN Raise(h[Len(h)].exc)
    ELSE Ret(h[Len(h)].resp)

OneRequest_retries_build(c, kind, filter, h) ==
    IF Len(h) = 0 THEN Svc(c)
    ELSE IF ~h[1].ok /\ Len(h) = 1 THEN Svc(c)
    ELSE IF ~h[1].ok THEN Raise(h[1].exc)
    ELSE IF Len(h) = 1 THEN Req(c, kind, h[1].handle, filter)
    ELSE IF ~h[2].ok THEN Raise(h[2].exc)
    ELSE Ret(h[2].resp)

\* a method whose body is: service = await self._get_service();
\* request = service....; return await self._execute_request(request)
OneRequest(c, kind, filter, h) ==
    IF Len(h) = 0 THEN Svc(c)
    ELSE IF ~h[1].ok THEN Raise(h[1].exc)
    ELSE IF Len(h) = 1 THEN Req(c, kind, h[1].handle, filter)
    ELSE IF ~h[2].ok THEN Raise(h[2].exc)
    ELSE Ret(h[2].resp)

\* the same, returning response.get(<field>, [])
OneListing(c, kind, filter, h) ==
    LET e == OneRequest(c, kind, filter, h)
    IN  IF e.eff = "ret" THEN Ret(ListVal(e.val)) ELSE e

\* the same, returning the response mapping
OneObject(c, kind, h) ==
    LET e == OneRequest(c, kind, FALSE, h)
    IN  IF e.eff = "ret" THEN Ret(DictVal(kind)) ELSE e

---------------------------------------------------------------------------
(* dv360_client.py: the operations of DV360Client.                         *)

RECURSIVE Flatten(_)
Flatten(ss) == IF ss = <<>> THEN <<>> ELSE Head(ss) \o Flatten(Tail(ss))

\* the first failed outcome of a history, 0 when there is none
FirstFailure(h) ==
    IF \E i \in 1..Len(h) : ~h[i].ok
    THEN CHOOSE i \in 1..Len(h) : ~h[i].ok /\ \A j \in 1..(i - 1) : h[j].ok
    ELSE 0

\* the parameters of advertisers().list
PartnerParams(partner_id) == [kind |-> "partner params", partnerId |-> partner_id]

list_advertisers_last_partner(partner_id, h) ==
    IF Len(h) = 0 THEN Svc("dv360")
    ELSE IF ~h[1].ok THEN Raise(h[1].exc)
    ELSE IF Truthy(partner_id)
         THEN IF Len(h) = 1
              THEN ReqBody("dv360", "advertisers.list", h[1].handle, FALSE,
                           PartnerParams(partner_id))
              ELSE IF ~h[2].ok THEN Raise(h[2].exc)
              ELSE Ret(ListVal(h[2].resp))
    ELSE IF Len(h) = 1 THEN Req("dv360", "partners.list", h[1].handle, FALSE)
    ELSE IF ~h[2].ok THEN Ret(ListVal(<<>>))
    ELSE IF h[2].resp = <<>> THEN Ret(ListVal(<<>>))
    ELSE IF Len(h) = 2
         THEN ReqBody("dv360", "advertisers.list", h[1].handle, FALSE,
                      PartnerParams(h[2].resp[Len(h[2].resp)].id))
    ELSE IF ~h[3].ok THEN Raise(h[3].exc)
    ELSE Ret(ListVal(h[3].resp))

\* DV360Client.list_advertisers: with no partner_id the partners are listed
\* inside a try and the first one is used
list_advertisers(partner_id, h) ==
    IF Len(h) = 0 THEN Svc("dv360")
    ELSE IF ~h[1].ok THEN Raise(h[1].exc)
    ELSE IF Truthy(partner_id)
         THEN IF Len(h) = 1
              THEN ReqBody("dv360", "advertisers.list", h[1].handle, FALSE,
                           PartnerParams(partner_id))
              ELSE IF ~h[2].ok THEN Raise(h[2].exc)
              ELSE Ret(ListVal(h[2].resp))
    ELSE IF Len(h) = 1 THEN Req("dv360", "partners.list", h[1].handle, FALSE)
    ELSE IF ~h[2].ok THEN Ret(ListVal(<<>>))
    ELSE IF h[2].resp = <<>> THEN Ret(ListVal(<<>>))
    ELSE IF Len(h) = 2
         THEN ReqBody("dv360", "advertisers.list", h[1].handle, FALSE,
                      PartnerParams(h[2].resp[1].id))
    ELSE IF ~h[3].ok THEN Raise(h[3].exc)
    ELSE Ret(ListVal(h[3].resp))

\* the loop of list_campaigns and list_line_items: one listing request per
\* advertiser, the answers concatenated
PerAdvertiserLoop(kind, handle, advs, h) ==
    IF FirstFailure(h) # 0 THEN Raise(h[FirstFailure(h)].exc)
    ELSE IF Len(h) < Len(advs) THEN Req("dv360", kind, handle, FALSE)
    ELSE Ret(ListVal(Flatten([i \in 1..Len(advs) |-> h[i].resp])))

\* list_campaigns and list_line_items called with no advertiser_id: the
\* handle, then list_advertisers(), then the loop
PerAdvertiser(kind, h) ==
    IF Len(h) = 0 THEN Svc("dv360")
    ELSE IF ~h[1].ok THEN Raise(h[1].exc)
    ELSE Then(LAMBDA x : list_advertisers(Unset, x),
              LAMBDA v, r : PerAdvertiserLoop(kind, h[1].handle, v.items, r),
              Rest(h, 1))

\* DV360Client.list_campaigns, called with no advertiser_id
list_campaigns(h) == PerAdvertiser("campaigns.list", h)

\* DV360Client.list_line_items, called with no advertiser_id
list_line_items(h) == PerAdvertiser("lineItems.list", h)

\* DV360Client.list_audiences, called with no advertiser_id
list_audiences(h) == OneListing("dv360", "audiences.list", FALSE, h)

\* DV360Client.list_reports
list_reports(h) == OneListing("dv360", "queries.list", FALSE, h)

\* DV360Client.create_campaign
create_campaign(h) == OneObject("dv360", "campaigns.create", h)

\* DV360Client.update_line_item_targeting: a placeholder that issues no request
update_line_item_targeting(h) ==
    IF Len(h) = 0 THEN Svc("dv360")
    ELSE IF ~h[1].ok THEN Raise(h[1].exc)
    ELSE Ret(DictVal("targeting placeholder"))

\* DV360Client.get_campaign_performance
get_campaign_performance(h) ==
    LET e == OneRequest("dv360", "queries.create", FALSE, h)
    IN  IF e.eff = "ret" THEN Ret(DictVal("Report generation initiated")) ELSE e

\* the identifiers given as line_item_id, as texts: '/' and the pieces
\* between
LineItemIds ==
    {"", "li1", "adv1/li1", "advertisers/adv1/lineItems",
     "advertisers/adv1/lineItems/li1", "advertisers/adv1/lineItems/li1/x", "///"}

IdTokens(v) ==
    CASE v = "" -> <<>>
      [] v = "li1" -> <<"li1">>
      [] v = "adv1/li1" -> <<"adv1", "/", "li1">>
      [] v = "advertisers/adv1/lineItems" -> <<"advertisers", "/", "adv1", "/", "lineItems">>
      [] v = "advertisers/adv1/lineItems/li1" ->
             <<"advertisers", "/", "adv1", "/", "lineItems", "/", "li1">>
      [] v = "advertisers/adv1/lineItems/li1/x" ->
             <<"advertisers", "/", "adv1", "/", "lineItems", "/", "li1", "/", "x">>
      [] v = "///" -> <<"/", "/", "/">>
      [] OTHER -> <<v>>

\* str.split('/'): cur is the part being read
RECURSIVE SplitFrom(_, _)
SplitFrom(cs, cur) ==
    IF cs = <<>> THEN <<cur>>
    ELSE IF Head(cs) = "/" THEN <<cur>> \o SplitFrom(Tail(cs), <<>>)
    ELSE SplitFrom(Tail(cs), Append(cur, Head(cs)))

\* line_item_id.split('/')
Split(v) == SplitFrom(IdTokens(v), <<>>)

\* d[k] = v on a mapping
SetItem(d, k, v) == [x \in DOMAIN d \cup {k} |-> IF x = k THEN v ELSE d[x]]

\* the parameters of lineItems().get
LineItemParams(parts) ==
    [kind |-> "line item params", advertiserId |-> parts[2], lineItemId |-> parts[4]]

\* the parameters of lineItems().patch: the line item as it was read, its
\* entityStatus set
LineItemPatch(parts, line_item) ==
    [kind |-> "line item patch", advertiserId |-> parts[2], lineItemId |-> parts[4],
     updateMask |-> "entityStatus", body |-> SetItem(line_item, "status", PAUSED)]

pause_line_item_splits_late(line_item_id, h) ==
    IF Len(h) = 0 THEN Svc("dv360")
    ELSE IF ~h[1].ok THEN Raise(h[1].exc)
    ELSE IF Len(Split(line_item_id)) < 4
         THEN Raise(ValueError(<<"Invalid line item ID format">>))
    ELSE IF Len(h) = 1
         THEN ReqBody("dv360", "lineItems.get", h[1].handle, FALSE,
                      LineItemParams(Split(line_item_id)))
    ELSE IF ~h[2].ok THEN Raise(h[2].exc)
    ELSE IF Len(h) = 2
         THEN ReqBody("dv360", "lineItems.patch", h[1].handle, FALSE,
                      LineItemPatch(Split(line_item_id), h[2].resp))
    ELSE IF ~h[3].ok THEN Raise(h[3].exc)
    ELSE Ret(DictVal("lineItems.patch"))

\* DV360Client.pause_line_item
pause_line_item(line_item_id, h) ==
    IF Len(Split(line_item_id)) < 4
    THEN Raise(ValueError(<<"Invalid line item ID format">>))
    ELSE IF Len(h) = 0 THEN Svc("dv360")
    ELSE IF ~h[1].ok THEN Raise(h[1].exc)
    ELSE IF Len(h) = 1
         THEN ReqBody("dv360", "lineItems.get", h[1].handle, FALSE,
                      LineItemParams(Split(line_item_id)))
    ELSE IF ~h[2].ok THEN Raise(h[2].exc)
    ELSE IF Len(h) = 2
         THEN ReqBody("dv360", "lineItems.patch", h[1].handle, FALSE,
                      LineItemPatch(Split(line_item_id), h[2].resp))
    ELSE IF ~h[3].ok THEN Raise(h[3].exc)
    ELSE Ret(DictVal("lineItems.patch"))

\* DV360Client.create_audience_list
create_audience_list(h) == OneObject("dv360", "audiences.create", h)

\* DV360Client.get_campaign_details
get_campaign_details(h) == OneObject("dv360", "campaigns.get", h)

\* DV360Client.list_campaigns_for_advertiser
list_campaigns_for_advertiser(h) == OneListing("dv360", "campaigns.list", FALSE, h)

IsActive_not_paused(c) == DictGet(c, "status", Unset) # PAUSED

\* c.get('entityStatus') == 'ENTITY_STATUS_ACTIVE'
IsActive(c) == DictGet(c, "status", Unset) = ACTIVE

\* DV360Client.list_active_campaigns
list_active_campaigns(h) ==
    LET e == list_campaigns_for_advertiser(h)
    IN  IF e.eff = "ret"
        THEN Ret(ListVal(SelectSeq(e.val.items, IsActive)))
        ELSE e

\* the characters of the texts the model searches in and for
Chars(v) ==
    CASE v = "" -> <<>>
      [] v = "Spring Sale" -> <<"S", "p", "r", "i", "n", "g", " ", "S", "a", "l", "e">>
      [] v = "Autumn" -> <<"A", "u", "t", "u", "m", "n">>
      [] v = "SPRING" -> <<"S", "P", "R", "I", "N", "G">>
      [] v = "Sale" -> <<"S", "a", "l", "e">>
      [] v = "um" -> <<"u", "m">>
      [] v = "g s" -> <<"g", " ", "s">>
      [] v = "x" -> <<"x">>

\* str.lower on one character
LowerChar(ch) ==
    CASE ch = "S" -> "s" [] ch = "P" -> "p" [] ch = "R" -> "r" [] ch = "I" -> "i"
      [] ch = "N" -> "n" [] ch = "G" -> "g" [] ch = "A" -> "a" [] OTHER -> ch

\* str.lower
Lower(cs) == [i \in 1..Len(cs) |-> LowerChar(cs[i])]

\* hay starts with needle
StartsWith(hay, needle) ==
    /\ Len(needle) <= Len(hay)
    /\ SubSeq(hay, 1, Len(needle)) = needle

\* Python's `needle in hay` on texts: the first position needle occurs at is
\* looked for from the left
RECURSIVE InStr(_, _)
InStr(needle, hay) ==
    IF StartsWith(hay, needle) THEN TRUE
    ELSE IF hay = <<>> THEN FALSE
    ELSE InStr(needle, Tail(hay))

\* c.get('displayName', '')
DisplayName(c) == DictGet(c, "name", "")

search_campaigns_keeps_term_case(search_term, h) ==
    LET e == list_campaigns_for_advertiser(h)
    IN  IF e.eff = "ret"
        THEN Ret(ListVal(SelectSeq(e.val.items,
                 LAMBDA c : InStr(Chars(search_term), Lower(Chars(DisplayName(c)))))))
        ELSE e

\* DV360Client.search_campaigns
search_campaigns(search_term, h) ==
    LET e == list_campaigns_for_advertiser(h)
    IN  IF e.eff = "ret"
        THEN Ret(ListVal(SelectSeq(e.val.items,
                 LAMBDA c : InStr(Lower(Chars(search_term)),
                                  Lower(Chars(DisplayName(c)))))))
        ELSE e

list_insertion_orders_filters_when_given(campaign_id, h) ==
    OneListing("dv360", "insertionOrders.list", campaign_id # Unset, h)

\* DV360Client.list_insertion_orders: `if campaign_id:`
list_insertion_orders(campaign_id, h) ==
    OneListing("dv360", "insertionOrders.list", Truthy(campaign_id), h)

\* DV360Client.get_insertion_order_details
get_insertion_order_details(h) == OneObject("dv360", "insertionOrders.get", h)

\* DV360Client.list_line_items_for_io
list_line_items_for_io(insertion_order_id, h) ==
    OneListing("dv360", "lineItems.list", Truthy(insertion_order_id), h)

\* DV360Client.get_line_item_details
get_line_item_details(h) == OneObject("dv360", "lineItems.get", h)

\* DV360Client.get_targeting_options
get_targeting_options(h) ==
    LET e == get_line_item_details(h)
    IN  IF e.eff = "ret" THEN Ret(DictVal("targetingExpansion")) ELSE e

\* DV360Client.list_creatives
list_creatives(h) == OneListing("dv360", "creatives.list", FALSE, h)

\* DV360Client.get_creative_details
get_creative_details(h) == OneObject("dv360", "creatives.get", h)

\* DV360Client.list_audiences_for_advertiser
list_audiences_for_advertiser(h) == OneListing("dv360", "audiences.list", FALSE, h)

\* DV360Client.get_audience_details
get_audience_details(h) == OneObject("dv360", "audiences.get", h)

\* DV360Client.run_report_query
run_report_query(query_params, h) ==
    IF Len(h) = 0 THEN Svc("dv360")
    ELSE IF ~h[1].ok THEN Raise(h[1].exc)
    ELSE IF Len(h) = 1
         THEN ReqBody("dv360", "queries.create", h[1].handle, FALSE, query_params)
    ELSE IF ~h[2].ok THEN Raise(h[2].exc)
    ELSE Ret(h[2].resp)

\* DV360Client.list_saved_reports
list_saved_reports(advertiser_id, h) ==
    LET e == OneListing("dv360", "queries.list", FALSE, h)
    IN  IF e.eff = "ret" /\ Truthy(advertiser_id)
        THEN Ret(ListVal(SelectSeq(e.val.items, LAMBDA q : q.adv = advertiser_id)))
        ELSE e

\* campaigns[:5]
RecentCampaigns == 5

Take_all(s, n) == s

\* s[:n]
Take(s, n) == SubSeq(s, 1, IF Len(s) < n THEN Len(s) ELSE n)

Catch_reraises(e) == e

\* `except Exception as e: return {'error': str(e)}`
Catch(e) == IF e.eff = "raise" THEN Ret(ErrVal(e.exc.msg)) ELSE e

\* the summary get_advertiser_summary returns
Summary(adv, campaigns, ios, line_items, creatives) ==
    [kind |-> "summary",
     advertiser |-> adv,
     total_campaigns |-> Len(campaigns),
     active_campaigns |-> Len(SelectSeq(campaigns, IsActive)),
     insertion_orders |-> Len(ios),
     line_items |-> Len(line_items),
     creatives |-> Len(creatives),
     recent_campaigns |-> Take(campaigns, RecentCampaigns)]

\* the tail of get_advertiser_summary, after the advertiser was found:
\* four listings in a row
SummaryListings(adv, h) ==
    Then(list_campaigns_for_advertiser,
         LAMBDA v1, r1 :
             Then(LAMBDA x : list_insertion_orders(Unset, x),
                  LAMBDA v2, r2 :
                      Then(LAMBDA x : list_line_items_for_io(Unset, x),
                           LAMBDA v3, r3 :
                               Then(list_creatives,
                                    LAMBDA v4, r4 :
                                        Ret(Summary(adv, v1.items, v2.items,
                                                    v3.items, v4.items)),
                                    r3),
                           r2),
                  r1),
         h)

\* DV360Client.get_advertiser_summary
get_advertiser_summary(advertiser_id, h) ==
    Catch(Then(LAMBDA x : list_advertisers(Unset, x),
               LAMBDA v, r :
                   IF \A i \in 1..Len(v.items) : v.items[i].id # advertiser_id
                   THEN Ret(ErrVal(<<"Advertiser not found">>))
                   ELSE SummaryListings(advertiser_id, r),
               h))

\* the metrics of the query get_campaign_performance_summary creates
SummaryMetrics ==
    <<"METRIC_IMPRESSIONS", "METRIC_CLICKS", "METRIC_CTR", "METRIC_TOTAL_CONVERSIONS",
      "METRIC_REVENUE_ADVERTISER", "METRIC_MEDIA_COST_ADVERTISER">>

\* query_params of get_campaign_performance_summary
SummaryQuery(advertiser_id, campaign_id) ==
    QueryBody(<<QueryFilter("FILTER_ADVERTISER", advertiser_id),
                QueryFilter("FILTER_CAMPAIGN", campaign_id)>>,
              SummaryMetrics)

\* the mapping get_campaign_performance_summary returns
PerformanceSummary(query_result) ==
    [kind |-> "performance summary",
     report_query_id |-> DictGet(query_result, "queryId", Unset),
     status |-> "Report generation initiated"]

get_campaign_performance_summary_polls(advertiser_id, campaign_id, h) ==
    Catch(Then(get_campaign_details,
               LAMBDA v1, r1 :
                   Then(LAMBDA x : run_report_query(SummaryQuery(advertiser_id,
                                                                 campaign_id), x),
                        LAMBDA v2, r2 :
                            Then(LAMBDA x : OneObject("dv360", "queries.get", x),
                                 LAMBDA v3, r3 : Ret(PerformanceSummary(v2)),
                                 r2),
                        r1),
               h))

get_campaign_performance_summary_creates_first(advertiser_id, campaign_id, h) ==
    Catch(Then(LAMBDA x : run_report_query(SummaryQuery(advertiser_id, campaign_id), x),
               LAMBDA v1, r1 :
                   Then(get_campaign_details,
                        LAMBDA v2, r2 : Ret(PerformanceSummary(v1)),
                        r1),
               h))

\* DV360Client.get_campaign_performance_summary
get_campaign_performance_summary(advertiser_id, campaign_id, h) ==
    Catch(Then(get_campaign_details,
               LAMBDA v1, r1 :
                   Then(LAMBDA x : run_report_query(SummaryQuery(advertiser_id,
                                                                 campaign_id), x),
                        LAMBDA v2, r2 : Ret(PerformanceSummary(v2)),
                        r1),
               h))

\* the methods class DV360Client defines
DV360ClientMethods ==
    {"_get_service", "_get_credentials", "_execute_request", "list_advertisers",
     "list_campaigns", "list_line_items", "list_audiences", "list_reports",
     "create_campaign", "update_line_item_targeting", "get_campaign_performance",
     "pause_line_item", "create_audience_list", "get_campaign_details",
     "list_campaigns_for_advertiser", "list_active_campaigns", "search_campaigns",
     "list_insertion_orders", "get_insertion_order_details", "list_line_items_for_io",
     "get_line_item_details", "get_targeting_options", "list_creatives",
     "get_creative_details", "list_audiences_for_advertiser", "get_audience_details",
     "run_report_query", "get_report_status", "download_report_data",
     "list_saved_reports", "get_advertiser_summary",
     "get_campaign_performance_summary"}

\* arguments.get(key): None when the key is absent
Get(a, k) == IF k \in DOMAIN a THEN a[k] ELSE Unset

\* a method of DV360Client called with the arguments a server passes it
DV360Op(method, a, h) ==
    CASE method = "list_advertisers" -> list_advertisers(Unset, h)
      [] method = "list_campaigns" -> list_campaigns(h)
      [] method = "list_line_items" -> list_line_items(h)
      [] method = "list_audiences" -> list_audiences(h)
      [] method = "list_reports" -> list_reports(h)
      [] method = "create_campaign" -> create_campaign(h)
      [] method = "update_line_item_targeting" -> update_line_item_targeting(h)
      [] method = "get_campaign_performance" -> get_campaign_performance(h)
      [] method = "pause_line_item" -> pause_line_item(a["line_item_id"], h)
      [] method = "create_audience_list" -> create_audience_list(h)
      [] method = "get_campaign_details" -> get_campaign_details(h)
      [] method = "list_campaigns_for_advertiser" -> list_campaigns_for_advertiser(h)
      [] method = "list_active_campaigns" -> list_active_campaigns(h)
      [] method = "search_campaigns" -> search_campaigns(a["search_term"], h)
      [] method = "list_insertion_orders" ->
             list_insertion_orders(Get(a, "campaign_id"), h)
      [] method = "get_insertion_order_details" -> get_insertion_order_details(h)
      [] method = "list_line_items_for_io" ->
             list_line_items_for_io(Get(a, "insertion_order_id"), h)
      [] method = "get_line_item_details" -> get_line_item_details(h)
      [] method = "get_targeting_options" -> get_targeting_options(h)
      [] method = "list_creatives" -> list_creatives(h)
      [] method = "get_creative_details" -> get_creative_details(h)
      [] method = "list_audiences_for_advertiser" -> list_audiences_for_advertiser(h)
      [] method = "get_audience_details" -> get_audience_details(h)
      [] method = "list_saved_reports" -> list_saved_reports(Get(a, "advertiser_id"), h)
      [] method = "get_advertiser_summary" ->
             get_advertiser_summary(a["advertiser_id"], h)
      [] method = "get_campaign_performance_summary" ->
             get_campaign_performance_summary(a["advertiser_id"], a["campaign_id"], h)

---------------------------------------------------------------------------
(* bid_manager_client.py: the operations of BidManagerClient.              *)

\* `service = await bid_manager._get_service()` (test_real_performance_metrics.py)
bid_manager_get_service(h) ==
    IF Len(h) = 0 THEN Svc("bid_manager")
    ELSE IF ~h[1].ok THEN Raise(h[1].exc)
    ELSE Ret(DictVal("service"))

\* BidManagerClient.get_query_status: the handle is fetched outside the try
get_query_status(h) ==
    LET e == OneRequest("bid_manager", "queries.get", FALSE, h)
    IN  IF Len(h) >= 2 /\ e.eff = "raise" THEN Ret(ErrVal(e.exc.msg))
        ELSE IF e.eff = "ret" THEN Ret(DictVal("queries.get"))
        ELSE e

\* what get_report_data returns when both requests were answered:
\* `latest_report = reports[0]`
ReportData(query_id, reports) ==
    IF reports = <<>>
    THEN [kind |-> "report data", status |-> "No report data available yet"]
    ELSE [kind |-> "report data", status |-> "Report available",
          query_id |-> query_id,
          report_id |-> reports[1].id,
          metadata |-> [created |-> reports[1].created],
          google_cloud_storage_path |-> reports[1].path]

\* the parameters of queries().get and queries().reports().list
QueryParams(query_id) == [kind |-> "query params", queryId |-> query_id]

get_report_data_empty_is_error(query_id, h) ==
    IF Len(h) = 0 THEN Svc("bid_manager")
    ELSE IF ~h[1].ok THEN Raise(h[1].exc)
    ELSE IF Len(h) = 1
         THEN ReqBody("bid_manager", "queries.get", h[1].handle, FALSE,
                      QueryParams(query_id))
    ELSE IF ~h[2].ok THEN Ret(ErrVal(h[2].exc.msg))
    ELSE IF Len(h) = 2
         THEN ReqBody("bid_manager", "reports.list", h[1].handle, FALSE,
                      QueryParams(query_id))
    ELSE IF ~h[3].ok THEN Ret(ErrVal(h[3].exc.msg))
    ELSE IF h[3].resp = <<>> THEN Ret(ErrVal(<<"No report data available yet">>))
    ELSE Ret(ReportData(query_id, h[3].resp))

\* BidManagerClient.get_report_data: the handle is fetched outside the try,
\* the query lookup and the report listing inside it
get_report_data(query_id, h) ==
    IF Len(h) = 0 THEN Svc("bid_manager")
    ELSE IF ~h[1].ok THEN Raise(h[1].exc)
    ELSE IF Len(h) = 1
         THEN ReqBody("bid_manager", "queries.get", h[1].handle, FALSE,
                      QueryParams(query_id))
    ELSE IF ~h[2].ok THEN Ret(ErrVal(h[2].exc.msg))
    ELSE IF Len(h) = 2
         THEN ReqBody("bid_manager", "reports.list", h[1].handle, FALSE,
                      QueryParams(query_id))
    ELSE IF ~h[3].ok THEN Ret(ErrVal(h[3].exc.msg))
    ELSE Ret(ReportData(query_id, h[3].resp))

\* create_performance_query's default metrics
DefaultMetrics ==
    <<"METRIC_IMPRESSIONS", "METRIC_CLICKS", "METRIC_CTR", "METRIC_TOTAL_CONVERSIONS",
      "METRIC_MEDIA_COST_USD", "METRIC_REVENUE_USD", "METRIC_BILLABLE_COST_USD">>

\* BidManagerClient.create_performance_query, called with no metrics argument
create_performance_query(advertiser_id, campaign_id, h) ==
    IF Len(h) = 0 THEN Svc("bid_manager")
    ELSE IF ~h[1].ok THEN Raise(h[1].exc)
    ELSE IF Len(h) = 1
         THEN ReqBody("bid_manager", "queries.create", h[1].handle, FALSE,
                      QueryBody(<<QueryFilter("FILTER_ADVERTISER", advertiser_id)>>
                                \o (IF Truthy(campaign_id)
                                    THEN <<QueryFilter("FILTER_CAMPAIGN", campaign_id)>>
                                    ELSE <<>>),
                                DefaultMetrics))
    ELSE IF ~h[2].ok THEN Raise(h[2].exc)
    ELSE Ret(h[2].resp)

\* await asyncio.sleep(5)
SleepSeconds == 5

\* the mapping a performance operation returns: the query identifier and
\* the report data under the key field
Performance(field, query_id, report_data) ==
    [kind |-> "performance", field |-> field, query_id |-> query_id,
     data |-> report_data]

\* `report_data = await self.get_report_data(query_id)` and the return
\* statement after it, inside the try of a performance operation: e is what
\* get_report_data does next
FetchReport(field, query_id, e) ==
    IF e.eff = "ret" THEN Ret(Performance(field, query_id, e.val)) ELSE Catch(e)

PerformanceOperation_polls(field, failure, query, h) ==
    IF query.eff = "raise" THEN Ret(ErrVal(query.exc.msg))
    ELSE IF query.eff # "ret" THEN query
    ELSE IF ~Truthy(DictGet(query.val, "queryId", Unset)) THEN Ret(ErrVal(failure))
    ELSE IF Len(h) = 2 THEN Sleep(SleepSeconds)
    ELSE FetchReport(field, DictGet(query.val, "queryId", Unset),
                     get_report_data(DictGet(query.val, "queryId", Unset),
                                     IF Len(h) >= 6 /\ h[6].ok /\ h[6].resp = <<>>
                                     THEN Rest(h, 6) ELSE Rest(h, 3)))

\* the body of get_campaign_performance_metrics and of
\* get_advertiser_performance_summary, all of it inside a try: query is what
\* create_performance_query does next
PerformanceOperation(field, failure, query, h) ==
    IF query.eff = "raise" THEN Ret(ErrVal(query.exc.msg))
    ELSE IF query.eff # "ret" THEN query
    ELSE IF ~Truthy(DictGet(query.val, "queryId", Unset)) THEN Ret(ErrVal(failure))
    ELSE IF Len(h) = 2 THEN Sleep(SleepSeconds)
    ELSE FetchReport(field, DictGet(query.val, "queryId", Unset),
                     get_report_data(DictGet(query.val, "queryId", Unset), Rest(h, 3)))

\* BidManagerClient.get_campaign_performance_metrics
get_campaign_performance_metrics(advertiser_id, campaign_id, h) ==
    PerformanceOperation("metrics", <<"Failed to create performance query">>,
                         create_performance_query(advertiser_id, campaign_id,
                                                  Upto(h, 2)), h)

\* BidManagerClient.get_advertiser_performance_summary
get_advertiser_performance_summary(advertiser_id, h) ==
    PerformanceOperation("summary", <<"Failed to create advertiser performance query">>,
                         create_performance_query(advertiser_id, Unset, Upto(h, 2)),
                         h)

LineItemMetrics ==
    <<"METRIC_IMPRESSIONS", "METRIC_CLICKS", "METRIC_CTR", "METRIC_TOTAL_CONVERSIONS",
      "METRIC_MEDIA_COST_USD", "METRIC_REVENUE_USD">>

\* BidManagerClient.get_line_item_performance: the handle is fetched outside
\* the try; query_id is not looked at before the sleep and the fetch
get_line_item_performance(advertiser_id, line_item_id, h) ==
    IF Len(h) = 0 THEN Svc("bid_manager")
    ELSE IF ~h[1].ok THEN Raise(h[1].exc)
    ELSE IF Len(h) = 1
         THEN ReqBody("bid_manager", "queries.create", h[1].handle, FALSE,
                      QueryBody(<<QueryFilter("FILTER_ADVERTISER", advertiser_id),
                                  QueryFilter("FILTER_LINE_ITEM", line_item_id)>>,
                                LineItemMetrics))
    ELSE IF ~h[2].ok THEN Ret(ErrVal(h[2].exc.msg))
    ELSE IF Len(h) = 2 THEN Sleep(SleepSeconds)
    ELSE FetchReport("performance", DictGet(h[2].resp, "queryId", Unset),
                     get_report_data(DictGet(h[2].resp, "queryId", Unset), Rest(h, 3)))

\* the query a direct caller of get_report_data asks about
KnownQuery == "q1"

BidManagerOp(method, a, h) ==
    CASE method = "_get_service" -> bid_manager_get_service(h)
      [] method = "get_query_status" -> get_query_status(h)
      [] method = "get_report_data" -> get_report_data(KnownQuery, h)
      [] method = "get_campaign_performance_metrics" ->
             get_campaign_performance_metrics(a["advertiser_id"], a["campaign_id"], h)
      [] method = "get_advertiser_performance_summary" ->
             get_advertiser_performance_summary(a["advertiser_id"], h)
      [] method = "get_line_item_performance" ->
             get_line_item_performance(a["advertiser_id"], a["line_item_id"], h)

---------------------------------------------------------------------------
(* The three servers: server.py ("package"), dv360_server.py              *)
(* ("standalone") and server_minimal.py ("minimal").                       *)

Servers == {"package", "standalone", "minimal"}

\* the first key of req, in the order the handler subscripts them, that the
\* argument mapping lacks; Unset when none is missing
FirstMissing(req, a) ==
    IF \E i \in 1..Len(req) : req[i] \notin DOMAIN a
    THEN req[CHOOSE i \in 1..Len(req) :
                 /\ req[i] \notin DOMAIN a
                 /\ \A j \in 1..(i - 1) : req[j] \in DOMAIN a]
    ELSE Unset

Ids(items) == [i \in 1..Len(items) |-> items[i].id]

\* str(result), as server.py renders every value a client method returns
Str(v) ==
    CASE v.kind = "error" -> <<"{'error': '">> \o v.msg \o <<"'}">>
      [] v.kind = "list" -> <<"[">> \o Ids(v.items) \o <<"]">>
      [] v.kind = "summary" ->
             <<"{'advertiser': ", v.advertiser, ", 'summary': {...}, 'recent_campaigns': [">>
             \o Ids(v.recent_campaigns) \o <<"]}">>
      [] v.kind = "performance summary" ->
             <<"{'campaign': {...}, 'report_query_id': '", v.report_query_id,
               "', 'status': '", v.status, "', ...}">>
      [] OTHER -> <<"{", v.tag, "}">>

\* the tools handle_list_tools of server.py lists, with the schema's properties
\* and the keys handle_call_tool subscripts, in its order
PackageTools ==
    {"create_campaign", "update_line_item_targeting", "get_campaign_performance",
     "pause_line_item", "create_audience_list", "get_insertion_order_details",
     "get_line_item_details", "get_targeting_options",
     "get_campaign_performance_summary", "list_insertion_orders",
     "list_line_items_for_io", "list_creatives", "get_creative_details",
     "list_audiences_for_advertiser", "get_audience_details", "list_saved_reports",
     "get_advertiser_summary", "get_real_campaign_performance",
     "get_real_advertiser_performance", "get_real_line_item_performance",
     "create_custom_performance_report", "get_performance_report_data",
     "list_performance_queries", "get_available_performance_metrics",
     "get_available_date_ranges"}

\* the eight tools the catalog calls REAL PERFORMANCE METRICS
RealPerformanceTools ==
    {"get_real_campaign_performance", "get_real_advertiser_performance",
     "get_real_line_item_performance", "create_custom_performance_report",
     "get_performance_report_data", "list_performance_queries",
     "get_available_performance_metrics", "get_available_date_ranges"}

PackageRequired(name) ==
    CASE name = "create_campaign" -> <<"advertiser_id", "campaign_name", "campaign_goal">>
      [] name = "update_line_item_targeting" -> <<"line_item_id", "targeting_options">>
      [] name = "get_campaign_performance" -> <<"campaign_id", "date_range">>
      [] name = "pause_line_item" -> <<"line_item_id">>
      [] name = "create_audience_list" ->
             <<"advertiser_id", "audience_name", "audience_type">>
      [] name = "get_insertion_order_details" -> <<"advertiser_id", "insertion_order_id">>
      [] name = "get_line_item_details" -> <<"advertiser_id", "line_item_id">>
      [] name = "get_targeting_options" -> <<"advertiser_id", "line_item_id">>
      [] name = "get_campaign_performance_summary" -> <<"advertiser_id", "campaign_id">>
      [] name = "list_insertion_orders" -> <<"advertiser_id">>
      [] name = "list_line_items_for_io" -> <<"advertiser_id">>
      [] name = "list_creatives" -> <<"advertiser_id">>
      [] name = "get_creative_details" -> <<"advertiser_id", "creative_id">>
      [] name = "list_audiences_for_advertiser" -> <<"advertiser_id">>
      [] name = "get_audience_details" -> <<"advertiser_id", "audience_id">>
      [] name = "get_advertiser_summary" -> <<"advertiser_id">>
      [] name = "get_real_campaign_performance" -> <<"advertiser_id", "campaign_id">>
      [] name = "get_real_advertiser_performance" -> <<"advertiser_id">>
      [] name = "get_real_line_item_performance" -> <<"advertiser_id", "line_item_id">>
      [] name = "create_custom_performance_report" -> <<"advertiser_id">>
      [] name = "get_performance_report_data" -> <<"query_id">>
      [] OTHER -> <<>>

PackageOptional(name) ==
    CASE name = "get_campaign_performance_summary" -> {"date_range"}
      [] name = "list_insertion_orders" -> {"campaign_id"}
      [] name = "list_line_items_for_io" -> {"insertion_order_id"}
      [] name = "list_saved_reports" -> {"advertiser_id"}
      [] name = "get_real_campaign_performance" -> {"date_range"}
      [] name = "get_real_advertiser_performance" -> {"date_range"}
      [] name = "get_real_line_item_performance" -> {"date_range"}
      [] name = "create_custom_performance_report" ->
             {"campaign_id", "line_item_id", "date_range", "metrics"}
      [] OTHER -> {}

\* [TextContent(type="text", text=f"Error: {str(e)}")]
PackageError(x) == Ret(<< <<"Error: ">> \o x.msg >>)

\* what handle_call_tool of server.py raises before the client method runs:
\* no branch for the name; the attribute self.dv360_client.<name>, looked up
\* before the arguments are evaluated; a subscripted key that is missing
PackageLookup(name, a) ==
    IF name \notin PackageTools THEN ValueError(<<"Unknown tool: ", name>>)
    ELSE IF name \notin DV360ClientMethods THEN AttributeError("DV360Client", name)
    ELSE IF FirstMissing(PackageRequired(name), a) # Unset
         THEN KeyError(FirstMissing(PackageRequired(name), a))
    ELSE NoExc

PackageResult_reraises(e) ==
    IF e.eff = "ret" THEN Ret(<<Str(e.val)>>) ELSE e

\* server.py handle_call_tool, around the client method:
\* return [TextContent(type="text", text=str(result))], and the except clause
PackageResult(e) ==
    IF e.eff = "ret" THEN Ret(<<Str(e.val)>>)
    ELSE IF e.eff = "raise" THEN PackageError(e.exc)
    ELSE e

\* server.py handle_call_tool
package_call_tool(name, a, h) ==
    IF PackageLookup(name, a) # NoExc THEN PackageError(PackageLookup(name, a))
    ELSE PackageResult(DV360Op(name, a, h))

PackageUris ==
    {"dv360://advertisers", "dv360://campaigns", "dv360://line-items",
     "dv360://audiences", "dv360://reports"}

\* the client method handle_read_resource of server.py calls for a URI
PackageResourceMethod(uri) ==
    CASE uri = "dv360://advertisers" -> "list_advertisers"
      [] uri = "dv360://campaigns" -> "list_campaigns"
      [] uri = "dv360://line-items" -> "list_line_items"
      [] uri = "dv360://audiences" -> "list_audiences"
      [] uri = "dv360://reports" -> "list_reports"

\* server.py handle_read_resource, around the client method: return
\* str(<the list>); `except Exception: logger.error(...); raise`
PackageResourceResult(e) ==
    IF e.eff = "ret" THEN Ret(Str(e.val)) ELSE e

\* server.py handle_read_resource
package_read_resource(uri, h) ==
    IF uri \notin PackageUris THEN Raise(ValueError(<<"Unknown resource URI: ", uri>>))
    ELSE PackageResourceResult(DV360Op(PackageResourceMethod(uri), <<>>, h))

\* the tools handle_list_tools of dv360_server.py lists
StandaloneTools ==
    {"list_advertisers", "get_advertiser_summary", "list_campaigns",
     "list_active_campaigns", "search_campaigns", "get_campaign_details",
     "list_insertion_orders", "get_insertion_order_details", "list_line_items",
     "get_line_item_details", "get_targeting_options", "list_creatives",
     "get_creative_details", "list_audiences", "get_audience_details",
     "get_campaign_performance_summary", "list_saved_reports"}

\* the names handle_call_tool of dv360_server.py has a branch for
StandaloneHandled ==
    {"list_advertisers", "get_advertiser_summary", "list_campaigns",
     "list_active_campaigns", "search_campaigns", "get_campaign_details",
     "list_insertion_orders", "list_line_items", "list_creatives", "list_audiences",
     "get_campaign_performance_summary", "list_saved_reports"}

\* the required keys of each tool's schema in dv360_server.py; a branch of
\* handle_call_tool subscripts them in this order
StandaloneRequired(name) ==
    CASE name \in {"get_advertiser_summary", "list_campaigns", "list_active_campaigns",
                   "list_insertion_orders", "list_line_items", "list_creatives",
                   "list_audiences"} -> <<"advertiser_id">>
      [] name = "search_campaigns" -> <<"advertiser_id", "search_term">>
      [] name \in {"get_campaign_details", "get_campaign_performance_summary"} ->
             <<"advertiser_id", "campaign_id">>
      [] name = "get_insertion_order_details" -> <<"advertiser_id", "insertion_order_id">>
      [] name \in {"get_line_item_details", "get_targeting_options"} ->
             <<"advertiser_id", "line_item_id">>
      [] name = "get_creative_details" -> <<"advertiser_id", "creative_id">>
      [] name = "get_audience_details" -> <<"advertiser_id", "audience_id">>
      [] OTHER -> <<>>

StandaloneOptional(name) ==
    CASE name = "list_insertion_orders" -> {"campaign_id"}
      [] name = "list_line_items" -> {"insertion_order_id"}
      [] name = "get_campaign_performance_summary" -> {"date_range"}
      [] name = "list_saved_reports" -> {"advertiser_id"}
      [] OTHER -> {}

\* the client method a branch of dv360_server.py calls
StandaloneMethod(name) ==
    CASE name = "list_campaigns" -> "list_campaigns_for_advertiser"
      [] name = "list_line_items" -> "list_line_items_for_io"
      [] name = "list_audiences" -> "list_audiences_for_advertiser"
      [] OTHER -> name

\* the status glyph each branch of dv360_server.py starts its text with; the
\* source writes them as emoji (cross mark, check mark, bar chart, ...)
CrossMark == "(cross mark) "
Glyph(name) ==
    CASE name = "list_advertisers" -> "(check mark) "
      [] name \in {"get_advertiser_summary", "list_saved_reports"} -> "(bar chart) "
      [] name \in {"list_campaigns", "get_campaign_details"} -> "(target) "
      [] name = "list_active_campaigns" -> "(green circle) "
      [] name = "search_campaigns" -> "(magnifier) "
      [] name = "list_insertion_orders" -> "(clipboard) "
      [] name = "list_line_items" -> "(memo) "
      [] name = "list_creatives" -> "(palette) "
      [] name = "list_audiences" -> "(people) "
      [] name = "get_campaign_performance_summary" -> "(chart up) "

\* [TextContent(type="text", text=f"<cross mark> Error: {...}")]
StandaloneError(msg) == Ret(<< <<CrossMark, "Error: ">> \o msg >>)

\* the text a branch of dv360_server.py builds from the client's value
StandaloneFormat(name, v) ==
    CASE v.kind = "list" -> <<Glyph(name), "Found ">> \o Ids(v.items)
      [] v.kind = "summary" ->
             <<Glyph(name), "**", v.advertiser, "**", "Recent Campaigns:">>
             \o Ids(v.recent_campaigns)
      [] v.kind = "performance summary" ->
             <<Glyph(name), "**Performance Summary: ", "Query ID:", v.report_query_id>>
      [] OTHER -> <<Glyph(name), "**", v.tag, "**">>

\* the branches of dv360_server.py that test `if 'error' in summary`
StandaloneSummaries == {"get_advertiser_summary", "get_campaign_performance_summary"}

\* dv360_server.py handle_call_tool, around the client method: the text of
\* the branch, and the except clause
StandaloneResult(name, e) ==
    IF e.eff = "raise" THEN StandaloneError(e.exc.msg)
    ELSE IF e.eff = "ret"
         THEN IF name \in StandaloneSummaries /\ e.val.kind = "error"
              THEN StandaloneError(e.val.msg)
              ELSE Ret(<<StandaloneFormat(name, e.val)>>)
    ELSE e

\* dv360_server.py handle_call_tool
standalone_call_tool(name, a, h) ==
    IF name \notin StandaloneHandled
    THEN Ret(<< <<CrossMark, "Unknown tool: ", name>> >>)
    ELSE IF FirstMissing(StandaloneRequired(name), a) # Unset
         THEN StandaloneError(KeyError(FirstMissing(StandaloneRequired(name), a)).msg)
    ELSE StandaloneResult(name, DV360Op(StandaloneMethod(name), a, h))

standalone_read_resource_reraises(uri, h) ==
    IF uri # "dv360://advertisers" THEN Raise(ValueError(<<"Unknown resource">>))
    ELSE list_advertisers(Unset, h)

\* dv360_server.py handle_read_resource
standalone_read_resource(uri, h) ==
    IF uri # "dv360://advertisers" THEN Ret(<<"Unknown resource">>)
    ELSE LET e == list_advertisers(Unset, h)
         IN  IF e.eff = "raise" THEN Ret(<<"Error loading advertisers: ">> \o e.exc.msg)
             ELSE IF e.eff = "ret" THEN Ret(<<"Found ">> \o Ids(e.val.items))
             ELSE e

MinimalTools == {"list_advertisers"}

minimal_call_tool_raises_unknown(name, a, h) ==
    IF name # "list_advertisers" THEN Raise(ValueError(<<"Unknown tool: ", name>>))
    ELSE LET e == list_advertisers(Unset, h)
         IN  IF e.eff = "raise" THEN Ret(<< <<"Error: ">> \o e.exc.msg >>)
             ELSE IF e.eff = "ret" THEN Ret(<< <<"Found ">> \o Ids(e.val.items) >>)
             ELSE e

\* server_minimal.py handle_call_tool
minimal_call_tool(name, a, h) ==
    IF name # "list_advertisers" THEN Ret(<< <<"Unknown tool">> >>)
    ELSE LET e == list_advertisers(Unset, h)
         IN  IF e.eff = "raise" THEN Ret(<< <<"Error: ">> \o e.exc.msg >>)
             ELSE IF e.eff = "ret" THEN Ret(<< <<"Found ">> \o Ids(e.val.items) >>)
             ELSE e

\* server_minimal.py handle_read_resource
minimal_read_resource(uri, h) ==
    IF uri # "dv360://advertisers" THEN Ret(<<"Unknown resource">>)
    ELSE LET e == list_advertisers(Unset, h)
         IN  IF e.eff = "raise" THEN Ret(<<"Error: ">> \o e.exc.msg)
             ELSE IF e.eff = "ret" THEN Ret(<<"Found ">> \o Ids(e.val.items))
             ELSE e

---------------------------------------------------------------------------
(* Protocol requests and their execution.                                  *)

\* the request slots of the process
Slots == {1, 2}
\* requests served one at a time use one slot
Tasks == {1}

UnknownTool == "no_such_tool"
UnknownUri == "dv360://unknown"

\* the values an argument of a tool call takes in the model
ArgValues(k) ==
    IF k = "line_item_id" THEN {"li1", "advertisers/adv1/lineItems/li1"}
    ELSE IF k = "advertiser_id" THEN {"adv1"}
    ELSE IF k = "search_term" THEN {"SPRING"}
    ELSE {"x"}

AllArgValues == {"li1", "advertisers/adv1/lineItems/li1", "adv1", "SPRING", "x"}

\* every argument mapping over a subset of the keys
ArgMaps(keys) ==
    UNION {{a \in [K -> AllArgValues] : \A k \in K : a[k] \in ArgValues(k)} :
              K \in SUBSET keys}

Range(s) == {s[i] : i \in 1..Len(s)}

Catalog(s) ==
    CASE s = "package" -> PackageTools
      [] s = "standalone" -> StandaloneTools
      [] s = "minimal" -> MinimalTools

Required(s, n) ==
    CASE s = "package" -> PackageRequired(n)
      [] s = "standalone" -> StandaloneRequired(n)
      [] s = "minimal" -> <<>>

\* the properties of a tool's input schema
Properties(s, n) ==
    Range(Required(s, n)) \cup
    (CASE s = "package" -> PackageOptional(n)
       [] s = "standalone" -> StandaloneOptional(n)
       [] s = "minimal" -> {})

Uris(s) == IF s = "package" THEN PackageUris ELSE {"dv360://advertisers"}

CallsOf(s) ==
    UNION {{[via |-> "tool", server |-> s, name |-> n, args |-> a] :
               a \in ArgMaps(Properties(s, n))} : n \in Catalog(s)}
    \cup {[via |-> "tool", server |-> s, name |-> UnknownTool, args |-> a] :
              a \in ArgMaps({"advertiser_id"})}
    \cup {[via |-> "resource", server |-> s, name |-> u, args |-> <<>>] :
              u \in Uris(s) \cup {UnknownUri}}

\* calls made on a BidManagerClient directly, as test_real_performance_metrics.py
\* does after constructing one
DirectCalls ==
    {[via |-> "client", server |-> "bid_manager", name |-> n, args |-> <<>>] :
        n \in {"_get_service", "get_query_status", "get_report_data"}}

Calls == UNION {CallsOf(s) : s \in Servers} \cup DirectCalls

\* what the coroutine serving call c does next, its awaits so far having
\* ended as h tells
Plan(c, h) ==
    CASE c.via = "tool" /\ c.server = "package" -> package_call_tool(c.name, c.args, h)
      [] c.via = "tool" /\ c.server = "standalone" ->
             standalone_call_tool(c.name, c.args, h)
      [] c.via = "tool" /\ c.server = "minimal" -> minimal_call_tool(c.name, c.args, h)
      [] c.via = "resource" /\ c.server = "package" -> package_read_resource(c.name, h)
      [] c.via = "resource" /\ c.server = "standalone" ->
             standalone_read_resource(c.name, h)
      [] c.via = "resource" /\ c.server = "minimal" -> minimal_read_resource(c.name, h)
      [] c.via = "client" -> BidManagerOp(c.name, c.args, h)

NoCall == [via |-> "", server |-> "", name |-> "", args |-> <<>>]
NoOut == [eff |-> "none"]
\* a slot: where the request stands, the call, the outcomes of its awaits,
\* its result, the build it started, and the handles as they were when it
\* started
Idle ==
    [pc |-> "idle", call |-> NoCall, hist |-> <<>>, out |-> NoOut, bid |-> 0,
     before |-> [c \in Clients |-> None]]

Pending(t) == Plan(task[t].call, task[t].hist)

Push(t, o) == [task EXCEPT ![t].hist = Append(@, o), ![t].pc = "run"]

\* a running server takes one of the calls cs into slot t
StartOf(t, cs) ==
    /\ server = "serving"
    /\ task[t].pc = "idle"
    /\ calls < MaxCalls
    /\ \E c \in cs :
           task' = [task EXCEPT ![t] =
                       [pc |-> "run", call |-> c, hist |-> <<>>, out |-> NoOut,
                        bid |-> 0, before |-> service]]
    /\ calls' = calls + 1
    /\ UNCHANGED <<service, builds>>
    /\ UNCHANGED cfgVars
    /\ elapsed' = 0
    /\ UNCHANGED <<server, settings>>
    /\ UNCHANGED pureVars

\* the protocol layer (or a test script) starts a request; requests are
\* served one at a time
Start(t) ==
    /\ \A u \in Tasks : task[u].pc = "idle"
    /\ StartOf(t, Calls)

\* _get_service with self.service set: the memoized handle is returned
GetServiceCached(t) ==
    /\ task[t].pc = "run"
    /\ \E p \in {Pending(t)} :
           /\ p.eff = "svc"
           /\ ~NeedsBuild(service[p.client])
           /\ task' = Push(t, Outcome("svc", p.client, "", service[p.client],
                                      FALSE, TRUE, FALSE, <<>>, NoExc))
    /\ UNCHANGED <<service, builds, calls>>
    /\ UNCHANGED cfgVars
    /\ UNCHANGED procVars
    /\ UNCHANGED pureVars

BuildBegins_single_flight(t, p) ==
    /\ p.eff = "svc"
    /\ NeedsBuild(service[p.client])
    /\ \A u \in Slots : task[u].pc # "build"
    /\ builds' = [builds EXCEPT ![p.client] = @ + 1]
    /\ task' = [task EXCEPT ![t].pc = "build", ![t].bid = builds[p.client] + 1]

\* the coroutine of slot t, asking for the handle (p), finds self.service
\* None and hands _build_service to the executor; builds in flight are not
\* looked at
BuildBegins(t, p) ==
    /\ p.eff = "svc"
    /\ NeedsBuild(service[p.client])
    /\ builds' = [builds EXCEPT ![p.client] = @ + 1]
    /\ task' = [task EXCEPT ![t].pc = "build", ![t].bid = builds[p.client] + 1]

\* _get_service with self.service None: _build_service goes to the executor
\* and the coroutine awaits it
BuildStart(t) ==
    /\ task[t].pc = "run"
    /\ \E p \in {Pending(t)} : BuildBegins(t, p)
    /\ UNCHANGED <<service, calls>>
    /\ UNCHANGED cfgVars
    /\ UNCHANGED procVars
    /\ UNCHANGED pureVars

\* the build returns a handle: self.service = <the handle>; return self.service
BuildSucceeds(t) ==
    /\ task[t].pc = "build"
    /\ BuildCanSucceed(cfg, fs)
    /\ \E p \in {Pending(t)} :
           /\ service' = [service EXCEPT ![p.client] = task[t].bid]
           /\ task' = Push(t, Outcome("svc", p.client, "", task[t].bid,
                                      FALSE, TRUE, TRUE, <<>>, NoExc))
    /\ UNCHANGED <<builds, calls>>
    /\ UNCHANGED cfgVars
    /\ UNCHANGED procVars
    /\ UNCHANGED pureVars

\* the build raises: self.service is not assigned
BuildFails(t) ==
    /\ task[t].pc = "build"
    /\ \E p \in {Pending(t)} :
       \E x \in BuildFailures(cfg, fs) :
           task' = Push(t, Outcome("svc", p.client, "", None,
                                   FALSE, FALSE, TRUE, <<>>, x))
    /\ UNCHANGED <<service, builds, calls>>
    /\ UNCHANGED cfgVars
    /\ UNCHANGED procVars
    /\ UNCHANGED pureVars

\* the awaited request p of slot t returns a body
RequestReturns(t, p) ==
    /\ p.eff = "req"
    /\ \E r \in Responses(p.kind) : task' = Push(t, Answered(p, TRUE, r, NoExc))

\* _execute_request: request.execute() in the executor returns a body
RequestSucceeds(t) ==
    /\ task[t].pc = "run"
    /\ \E p \in {Pending(t)} : RequestReturns(t, p)
    /\ UNCHANGED <<service, builds, calls>>
    /\ UNCHANGED cfgVars
    /\ UNCHANGED procVars
    /\ UNCHANGED pureVars

RequestFails_drops_handle(t) ==
    /\ task[t].pc = "run"
    /\ \E p \in {Pending(t)} :
           /\ p.eff = "req"
           /\ service' = [service EXCEPT ![p.client] = None]
           /\ task' = Push(t, Answered(p, FALSE, <<>>, HttpError))
    /\ UNCHANGED procVars
    /\ UNCHANGED <<builds, calls>>
    /\ UNCHANGED cfgVars
    /\ UNCHANGED pureVars

\* _execute_request: request.execute() raises; the exception is raised again
RequestFails(t) ==
    /\ task[t].pc = "run"
    /\ \E p \in {Pending(t)} :
           /\ p.eff = "req"
           /\ task' = Push(t, Answered(p, FALSE, <<>>, HttpError))
    /\ UNCHANGED <<service, builds, calls>>
    /\ UNCHANGED cfgVars
    /\ UNCHANGED procVars
    /\ UNCHANGED pureVars

\* asyncio.sleep returns after the time asked for, whatever happened remotely
SleepEnds(t) ==
    /\ task[t].pc = "run"
    /\ \E p \in {Pending(t)} :
           /\ p.eff = "sleep"
           /\ task' = Push(t, [Outcome("sleep", "bid_manager", "", None, FALSE, TRUE,
                                       FALSE, <<>>, NoExc)
                                  EXCEPT !.body = [kind |-> "sleep", secs |-> p.secs]])
    /\ UNCHANGED <<service, builds, calls>>
    /\ UNCHANGED cfgVars
    /\ UNCHANGED procVars
    /\ UNCHANGED pureVars

\* the handler returns, or an exception leaves it
Finish(t) ==
    /\ task[t].pc = "run"
    /\ \E p \in {Pending(t)} :
           /\ Terminal(p)
           /\ task' = [task EXCEPT ![t].pc = "done", ![t].out = p]
    /\ UNCHANGED <<service, builds, calls>>
    /\ UNCHANGED cfgVars
    /\ UNCHANGED procVars
    /\ UNCHANGED pureVars

\* the protocol layer sends the response
Deliver(t) ==
    /\ task[t].pc = "done"
    /\ task' = [task EXCEPT ![t] = Idle]
    /\ UNCHANGED <<service, builds, calls>>
    /\ UNCHANGED cfgVars
    /\ UNCHANGED procVars
    /\ UNCHANGED pureVars

\* Config's class-level defaults: max_retries 3, timeout_seconds 30
DefaultMaxRetries == 3
DefaultTimeoutSeconds == 30
DefaultSettings ==
    [max_retries |-> DefaultMaxRetries, timeout_seconds |-> DefaultTimeoutSeconds]

NoInput == [method |-> ""]
NoOutput == [eff |-> "none"]

---------------------------------------------------------------------------
(* The specifications.                                                     *)

InitConfig ==
    /\ env \in Envs
    /\ fs \in SUBSET {SaPath}
    /\ cfg = PostInit(env)
    /\ typeSeen = {}
    /\ valSeen = {}
    /\ service = [c \in Clients |-> None]
    /\ builds = [c \in Clients |-> 0]
    /\ calls = 0
    /\ task = [t \in Slots |-> Idle]
    /\ server = "serving"
    /\ settings = DefaultSettings
    /\ elapsed = 0
    /\ input = NoInput
    /\ output = NoOutput

NextConfig ==
    \/ Construct
    \/ SetEnv
    \/ TouchFile
    \/ CallGetCredentialsType
    \/ CallValidate

SpecConfig == InitConfig /\ [][NextConfig]_vars

\* the environments the servers are started in: no credentials, a service
\* account key file, the OAuth triple
ServerEnvs ==
    {e \in Envs :
        \/ \A n \in EnvNames : e[n] = Unset
        \/ /\ e["GOOGLE_APPLICATION_CREDENTIALS"] = SaPath
           /\ \A n \in EnvNames \ {"GOOGLE_APPLICATION_CREDENTIALS"} : e[n] = Unset
        \/ /\ e["GOOGLE_APPLICATION_CREDENTIALS"] = Unset
           /\ \A n \in EnvNames \ {"GOOGLE_APPLICATION_CREDENTIALS"} :
                  e[n] = "secret-value"}

Init ==
    /\ env \in ServerEnvs
    /\ fs \in SUBSET {SaPath}
    /\ cfg = PostInit(env)
    /\ typeSeen = {}
    /\ valSeen = {}
    /\ service = [c \in Clients |-> None]
    /\ builds = [c \in Clients |-> 0]
    /\ calls = 0
    /\ task = [t \in Slots |-> Idle]
    /\ server = "serving"
    /\ settings = DefaultSettings
    /\ elapsed = 0
    /\ input = NoInput
    /\ output = NoOutput

Next ==
    \E t \in Tasks :
        \/ Start(t)
        \/ GetServiceCached(t)
        \/ BuildStart(t)
        \/ BuildSucceeds(t)
        \/ BuildFails(t)
        \/ RequestSucceeds(t)
        \/ RequestFails(t)
        \/ Finish(t)
        \/ Deliver(t)

Spec == Init /\ [][Next]_vars

---------------------------------------------------------------------------
(* Server start-up (specification SpecStartup): the process starts with    *)
(* no server object; DV360MCPServer() builds the Config and the client,    *)
(* and only then are requests served.                                      *)

SettingNames == {"MAX_RETRIES", "TIMEOUT_SECONDS"}

\* int(<str>): the texts it accepts, and their values; it raises ValueError
\* for every other text, "" included
IsIntText(v) == v \in {"0", "1"}
IntOf(v) == IF v = "0" THEN 0 ELSE 1

\* int(os.getenv(<name>, <default>)) raises
IntFails(e) == \E n \in SettingNames : e[n] # Unset /\ ~IsIntText(e[n])

\* Config.__post_init__: max_retries and timeout_seconds
ParseSettings(e) ==
    [max_retries |-> IF e["MAX_RETRIES"] = Unset THEN DefaultMaxRetries
                     ELSE IntOf(e["MAX_RETRIES"]),
     timeout_seconds |-> IF e["TIMEOUT_SECONDS"] = Unset THEN DefaultTimeoutSeconds
                         ELSE IntOf(e["TIMEOUT_SECONDS"])]

\* the environments of SpecStartup: no credentials or the OAuth triple, the
\* two settings unset, set to integers, or one of them not an integer
NoCredentials(e) == \A n \in EnvNames : e[n] = Unset
StartupEnvs ==
    {e \in [EnvNames \cup SettingNames -> {Unset, "secret-value", "0", "1", "abc", ""}] :
        /\ \/ NoCredentials(e)
           \/ /\ e["GOOGLE_APPLICATION_CREDENTIALS"] = Unset
              /\ \A n \in EnvNames \ {"GOOGLE_APPLICATION_CREDENTIALS"} :
                     e[n] = "secret-value"
        /\ <<e["MAX_RETRIES"], e["TIMEOUT_SECONDS"]>> \in
               {<<Unset, Unset>>, <<"0", "1">>, <<"abc", Unset>>, <<Unset, "">>}}

CreateServer_requires_credentials ==
    /\ server = "absent"
    /\ IF IntFails(env) \/ ~validate(PostInit(env), fs)
       THEN /\ server' = "crashed"
            /\ UNCHANGED <<cfg, settings>>
       ELSE /\ server' = "serving"
            /\ cfg' = PostInit(env)
            /\ settings' = ParseSettings(env)
    /\ service' = [c \in Clients |-> None]
    /\ UNCHANGED <<env, fs, typeSeen, valSeen, builds, calls, task, elapsed>>
    /\ UNCHANGED pureVars

\* DV360MCPServer.__init__ and get_server: Config() reads the environment
\* (an int() that raises ends the construction), DV360Client.__init__ sets
\* self.service = None, the handlers are registered
CreateServer ==
    /\ server = "absent"
    /\ IF IntFails(env)
       THEN /\ server' = "crashed"
            /\ UNCHANGED <<cfg, settings>>
       ELSE /\ server' = "serving"
            /\ cfg' = PostInit(env)
            /\ settings' = ParseSettings(env)
    /\ service' = [c \in Clients |-> None]
    /\ UNCHANGED <<env, fs, typeSeen, valSeen, builds, calls, task, elapsed>>
    /\ UNCHANGED pureVars

\* the calls of SpecStartup, made to the server DV360MCPServer builds: tool
\* calls that carry every property of the tool's schema, resource reads;
\* and the direct client calls
StartupCalls ==
    {c \in CallsOf("package") \cup DirectCalls :
        c.via = "tool" /\ c.name # UnknownTool
            => DOMAIN c.args = Properties(c.server, c.name)}

StartServing(t) == StartOf(t, StartupCalls)

\* time passes while the executor runs request.execute(): nothing in the
\* client reads the clock
WaitPastTimeout(t) ==
    /\ task[t].pc = "run"
    /\ \E p \in {Pending(t)} : p.eff = "req"
    /\ elapsed <= settings.timeout_seconds
    /\ elapsed' = settings.timeout_seconds + 1
    /\ UNCHANGED <<server, settings>>
    /\ UNCHANGED runVars
    /\ UNCHANGED cfgVars
    /\ UNCHANGED pureVars

InitStartup ==
    /\ env \in StartupEnvs
    /\ fs = {}
    /\ cfg = PostInit([n \in EnvNames |-> Unset])
    /\ typeSeen = {}
    /\ valSeen = {}
    /\ service = [c \in Clients |-> None]
    /\ builds = [c \in Clients |-> 0]
    /\ calls = 0
    /\ task = [t \in Slots |-> Idle]
    /\ server = "absent"
    /\ settings = DefaultSettings
    /\ elapsed = 0
    /\ input = NoInput
    /\ output = NoOutput

NextStartup ==
    \/ CreateServer
    \/ \E t \in Tasks :
        \/ StartServing(t)
        \/ GetServiceCached(t)
        \/ BuildStart(t)
        \/ BuildSucceeds(t)
        \/ BuildFails(t)
        \/ RequestSucceeds(t)
        \/ RequestFails(t)
        \/ WaitPastTimeout(t)
        \/ Finish(t)
        \/ Deliver(t)

SpecStartup == InitStartup /\ [][NextStartup]_vars

---------------------------------------------------------------------------
(* The client methods as functions of their arguments and of what the      *)
(* remote side answers (specification SpecPure): a method is applied to    *)
(* an input drawn from bounded sets; every await succeeds unless the       *)
(* input names the request that fails.                                     *)

\* entries of a campaign listing the filters are applied to
MaxPure == 2
\* entries of the campaign listing the summary is applied to
MaxCampaigns == 6
\* entries of the other listings the summary is applied to
MaxOther == 5

\* campaigns as the remote side can list them: with both fields, without
\* entityStatus, without displayName
CampaignPool ==
    <<[id |-> "c1", status |-> ACTIVE, name |-> "Spring Sale", adv |-> "adv1"],
      [id |-> "c2", status |-> PAUSED, name |-> "Autumn", adv |-> "adv1"],
      [id |-> "c3", name |-> "SPRING", adv |-> "adv1"],
      [id |-> "c4", status |-> ACTIVE, adv |-> "adv1"]>>

PureCampaigns == {CampaignPool[i] : i \in 1..Len(CampaignPool)}

PureListings == UNION {[1..n -> PureCampaigns] : n \in 0..MaxPure}

PureTerms == {"", "SPRING", "Sale", "um", "g s", "x"}

\* n campaigns, taken from the pool round and round from its k-th entry
Cycle(n, k) == [i \in 1..n |-> CampaignPool[((i + k - 2) % Len(CampaignPool)) + 1]]

\* a listing of n entries of the kind
Copies(kind, n) == [i \in 1..n |-> CHOOSE e \in Entities(kind) : TRUE]

Advertiser(a) == [id |-> a, status |-> ACTIVE, name |-> "Advertiser", adv |-> a]

\* what each request of a method answers
Answers(advertisers, campaigns, ios, line_items, creatives) ==
    [partners |-> Copies("partners.list", 1),
     advertisers |-> advertisers,
     campaigns |-> campaigns,
     insertionOrders |-> ios,
     lineItems |-> line_items,
     creatives |-> creatives]

AnswerTo(resp, kind) ==
    CASE kind = "partners.list" -> resp.partners
      [] kind = "advertisers.list" -> resp.advertisers
      [] kind = "campaigns.list" -> resp.campaigns
      [] kind = "insertionOrders.list" -> resp.insertionOrders
      [] kind = "lineItems.list" -> resp.lineItems
      [] kind = "creatives.list" -> resp.creatives

ActiveInputs ==
    {[method |-> "list_active_campaigns", term |-> "", adv |-> "adv1",
      resp |-> Answers(<<>>, cs, <<>>, <<>>, <<>>)] : cs \in PureListings}

SearchInputs ==
    {[method |-> "search_campaigns", term |-> w, adv |-> "adv1",
      resp |-> Answers(<<>>, cs, <<>>, <<>>, <<>>)] :
        cs \in PureListings, w \in PureTerms}

SummaryInputs ==
    {[method |-> "get_advertiser_summary", term |-> "", adv |-> "adv1",
      resp |-> Answers(advs, Cycle(n, k), Copies("insertionOrders.list", i),
                       Copies("lineItems.list", l), Copies("creatives.list", c))] :
        advs \in {<<Advertiser("adv1")>>, <<Advertiser("adv2"), Advertiser("adv1")>>,
                  <<Advertiser("adv2")>>},
        n \in 0..MaxCampaigns, k \in 1..Len(CampaignPool),
        i \in 0..MaxOther, l \in 0..MaxOther, c \in 0..MaxOther}

\* the optional campaign_id or insertion_order_id argument: left out (None),
\* empty, or an identifier
OptionalIds == {Unset, "", "x"}

\* list_insertion_orders and list_line_items_for_io, the optional
\* identifier in the term field
FilterInputs ==
    {[method |-> m, term |-> v, adv |-> "adv1",
      resp |-> Answers(<<>>, <<>>, Copies("insertionOrders.list", n),
                       Copies("lineItems.list", n), <<>>)] :
        m \in {"list_insertion_orders", "list_line_items_for_io"},
        v \in OptionalIds, n \in 0..MaxListing}

Partner(p) == [id |-> p, status |-> ACTIVE, name |-> "Partner", adv |-> ""]

\* get_advertiser_summary applied to an account with up to two partners:
\* the partner listing fails or answers ps, and the advertiser listing of
\* partner p answers byPartner[p]
PartnerInputs ==
    {[method |-> "get_advertiser_summary", term |-> "", adv |-> "adv1", fails |-> f,
      resp |-> [byPartner |-> bp]
               @@ [Answers(<<>>, <<>>, <<>>, <<>>, <<>>) EXCEPT !.partners = ps]] :
        f \in {{}, {"partners.list"}},
        ps \in {<<>>, <<Partner("p1")>>, <<Partner("p1"), Partner("p2")>>,
                <<Partner("p2"), Partner("p1")>>},
        bp \in [{"p1", "p2"} -> {<<>>, <<Advertiser("adv1")>>, <<Advertiser("adv2")>>}]}

\* a line item as lineItems().get answers it: active, paused, or with no
\* entityStatus
LineItems ==
    {[id |-> "li1", status |-> ACTIVE, name |-> "Line item"],
     [id |-> "li1", status |-> PAUSED, name |-> "Line item"],
     [id |-> "li1", name |-> "Line item"]}

\* pause_line_item applied to an identifier, the get or the patch failing
\* or not
PauseInputs ==
    {[method |-> "pause_line_item", term |-> v, adv |-> "adv1", fails |-> f,
      resp |-> [item |-> it]] :
        v \in LineItemIds, f \in {{}, {"lineItems.get"}, {"lineItems.patch"}},
        it \in LineItems}

\* whether the input makes the request e fail
PureFails(inp, e) == "fails" \in DOMAIN inp /\ e.kind \in inp.fails

\* what the input answers the request e with
PureAnswer(inp, e) ==
    IF "byPartner" \in DOMAIN inp.resp /\ e.kind = "advertisers.list"
    THEN inp.resp.byPartner[e.body.partnerId]
    ELSE IF e.kind = "lineItems.get" THEN inp.resp.item
    ELSE IF e.kind = "lineItems.patch" THEN e.body.body
    ELSE AnswerTo(inp.resp, e.kind)

\* the method of the input, as a coroutine
PureOp(inp, h) ==
    CASE inp.method = "list_active_campaigns" -> list_active_campaigns(h)
      [] inp.method = "search_campaigns" -> search_campaigns(inp.term, h)
      [] inp.method = "get_advertiser_summary" -> get_advertiser_summary(inp.adv, h)
      [] inp.method = "list_insertion_orders" -> list_insertion_orders(inp.term, h)
      [] inp.method = "list_line_items_for_io" -> list_line_items_for_io(inp.term, h)
      [] inp.method = "pause_line_item" -> pause_line_item(inp.term, h)

\* the coroutine run to its end: every _get_service returns the handle and
\* every request returns the listing the input holds for it, or fails when
\* the input says so
RECURSIVE AllSucceed(_, _)
Continue(inp, h, e) ==
    IF Terminal(e) THEN [out |-> e, hist |-> h]
    ELSE IF e.eff = "svc"
         THEN AllSucceed(inp, Append(h, Outcome("svc", e.client, "", 1, FALSE, TRUE,
                                                h = <<>>, <<>>, NoExc)))
    ELSE IF PureFails(inp, e)
         THEN AllSucceed(inp, Append(h, Answered(e, FALSE, <<>>, HttpError)))
    ELSE AllSucceed(inp, Append(h, Answered(e, TRUE, PureAnswer(inp, e), NoExc)))

AllSucceed(inp, h) == Continue(inp, h, PureOp(inp, h))

Apply(method) ==
    /\ output = NoOutput
    /\ input.method = method
    /\ output' = AllSucceed(input, <<>>)
    /\ UNCHANGED input
    /\ UNCHANGED cfgVars
    /\ UNCHANGED runVars
    /\ UNCHANGED procVars

ApplyListActiveCampaigns == Apply("list_active_campaigns")
ApplySearchCampaigns == Apply("search_campaigns")
ApplyGetAdvertiserSummary == Apply("get_advertiser_summary")
ApplyListInsertionOrders == Apply("list_insertion_orders")
ApplyListLineItemsForIo == Apply("list_line_items_for_io")
ApplyPauseLineItem == Apply("pause_line_item")

InitPure ==
    /\ env = [n \in EnvNames |-> Unset]
    /\ fs = {}
    /\ cfg = PostInit(env)
    /\ typeSeen = {}
    /\ valSeen = {}
    /\ service = [c \in Clients |-> None]
    /\ builds = [c \in Clients |-> 0]
    /\ calls = 0
    /\ task = [t \in Slots |-> Idle]
    /\ server = "serving"
    /\ settings = DefaultSettings
    /\ elapsed = 0
    /\ input \in ActiveInputs \cup SearchInputs \cup SummaryInputs \cup FilterInputs
                 \cup PartnerInputs \cup PauseInputs
    /\ output = NoOutput

NextPure ==
    \/ ApplyListActiveCampaigns
    \/ ApplySearchCampaigns
    \/ ApplyGetAdvertiserSummary
    \/ ApplyListInsertionOrders
    \/ ApplyListLineItemsForIo
    \/ ApplyPauseLineItem

SpecPure == InitPure /\ [][NextPure]_vars

---------------------------------------------------------------------------
(* Overlapping requests (specification SpecConcurrent): the event loop     *)
(* runs the coroutines of two requests, switching between them at their    *)
(* awaits.                                                                 *)

\* the calls of SpecConcurrent: the direct calls on the BidManagerClient
\* and server_minimal.py's list_advertisers tool called with no argument
RaceCalls ==
    {c \in Calls :
        \/ c.via = "client"
        \/ /\ c.via = "tool" /\ c.server = "minimal"
           /\ c.name = "list_advertisers" /\ c.args = <<>>}

\* a request arrives while another may be in progress
StartConcurrent(t) == StartOf(t, RaceCalls)

NextConcurrent ==
    \E t \in Slots :
        \/ StartConcurrent(t)
        \/ GetServiceCached(t)
        \/ BuildStart(t)
        \/ BuildSucceeds(t)
        \/ BuildFails(t)
        \/ RequestSucceeds(t)
        \/ RequestFails(t)
        \/ Finish(t)
        \/ Deliver(t)

SpecConcurrent == Init /\ [][NextConcurrent]_vars

---------------------------------------------------------------------------
(* The report operations of BidManagerClient (specification SpecReports):  *)
(* a script constructs the client and calls its methods one after another, *)
(* as test_real_performance_metrics.py does.                               *)

ReportArgs ==
    [advertiser_id |-> "adv1", campaign_id |-> "c1",
     line_item_id |-> "advertisers/adv1/lineItems/li1"]

ReportCalls ==
    {[via |-> "client", server |-> "bid_manager", name |-> n, args |-> ReportArgs] :
        n \in {"get_report_data", "get_campaign_performance_metrics",
               "get_advertiser_performance_summary", "get_line_item_performance"}}

StartReports(t) ==
    /\ \A u \in Tasks : task[u].pc = "idle"
    /\ StartOf(t, ReportCalls)

NextReports ==
    \E t \in Tasks :
        \/ StartReports(t)
        \/ GetServiceCached(t)
        \/ BuildStart(t)
        \/ BuildSucceeds(t)
        \/ BuildFails(t)
        \/ RequestSucceeds(t)
        \/ RequestFails(t)
        \/ SleepEnds(t)
        \/ Finish(t)
        \/ Deliver(t)

SpecReports == Init /\ [][NextReports]_vars

---------------------------------------------------------------------------
(* Properties of the servers and the clients (specification Spec).         *)

Done(t) == task[t].pc = "done"
ToolCall(t) == task[t].call.via = "tool"
ResourceRead(t) == task[t].call.via = "resource"
InCatalog(t) == task[t].call.name \in Catalog(task[t].call.server)

\* an await of the request failed: the handle build or a remote request
FailedIn(h) == \E i \in 1..Len(h) : ~h[i].ok
FailedBuildIn(h) == \E i \in 1..Len(h) : h[i].eff = "svc" /\ ~h[i].ok
RequestIn(h) == \E i \in 1..Len(h) : h[i].eff = "req"

\* the value is a non-empty list of non-empty texts
IsTextList(v) == Len(v) > 0 /\ \A i \in 1..Len(v) : Len(v[i]) > 0

\* the text has the token
Mentions(text, token) == \E i \in 1..Len(text) : text[i] = token

\* the text has the tokens of msg, in a row
Quotes(text, msg) ==
    \E k \in 0..Len(text) :
        /\ k + Len(msg) <= Len(text)
        /\ \A i \in 1..Len(msg) : text[k + i] = msg[i]

\* the text is one a handler builds in an except clause
IsErrorText(text) == Mentions(text, "Error: ")

\* the text says the tool is unknown
SaysUnknown(text) == Mentions(text, "Unknown tool: ") \/ Mentions(text, "Unknown tool")

\* C1: a call of a catalog tool during which the handle build or a remote
\* request failed ends by returning a non-empty list of non-empty texts; no
\* exception leaves handle_call_tool.
C1_ToolFailureIsText ==
    \A t \in Tasks :
        (Done(t) /\ ToolCall(t) /\ InCatalog(t) /\ FailedIn(task[t].hist))
            => /\ task[t].out.eff = "ret"
               /\ IsTextList(task[t].out.val)

\* a catalog tool of server.py whose remote request failed has answered
C1_Witness ==
    \E t \in Tasks :
        /\ Done(t) /\ ToolCall(t) /\ InCatalog(t)
        /\ task[t].call.server = "package"
        /\ \E i \in 1..Len(task[t].hist) :
               task[t].hist[i].eff = "req" /\ ~task[t].hist[i].ok
        /\ task[t].out.eff = "ret"

\* C2: in each of the three servers a call of a tool name outside the
\* catalog asks for no handle, starts no build, issues no request, and ends
\* by returning a text that says the tool is unknown.
C2_UnknownToolIsText ==
    \A t \in Tasks :
        (ToolCall(t) /\ ~InCatalog(t))
            => /\ task[t].hist = <<>>
               /\ task[t].pc # "build"
               /\ Done(t) => /\ task[t].out.eff = "ret"
                             /\ IsTextList(task[t].out.val)
                             /\ \E i \in 1..Len(task[t].out.val) :
                                    SaysUnknown(task[t].out.val[i])

\* an unknown tool name was answered by server_minimal.py
C2_Witness ==
    \E t \in Tasks :
        /\ Done(t) /\ ToolCall(t) /\ ~InCatalog(t)
        /\ task[t].call.server = "minimal"
        /\ task[t].out.eff = "ret"
        /\ builds = [c \in Clients |-> 0]

\* the required keys of the called tool that the arguments lack
MissingKeys(t) ==
    Range(Required(task[t].call.server, task[t].call.name)) \ DOMAIN task[t].call.args

\* C3: a call of a catalog tool whose arguments lack one required key issues
\* no remote request and ends by returning an error text that mentions the
\* missing key.
C3_MissingKeyIsNamed ==
    \A t \in Tasks :
        (ToolCall(t) /\ InCatalog(t) /\ Cardinality(MissingKeys(t)) = 1)
            => /\ ~RequestIn(task[t].hist)
               /\ Done(t) => /\ task[t].out.eff = "ret"
                             /\ \E i \in 1..Len(task[t].out.val) :
                                    /\ IsErrorText(task[t].out.val[i])
                                    /\ \E k \in MissingKeys(t) :
                                           Mentions(task[t].out.val[i], k)

\* C4 as stated: whatever failed, every resource read and every tool call
\* ends by returning; no exception reaches the protocol layer.
C4_NoExceptionEscapes ==
    \A t \in Tasks :
        (Done(t) /\ task[t].call.via # "client") => task[t].out.eff = "ret"

\* the failures handle_read_resource of server.py lets through: an unknown
\* URI, a failed build, a failed request other than the partner listing that
\* list_advertisers absorbs
PackageReadFails(t) ==
    \/ task[t].call.name \notin PackageUris
    \/ FailedBuildIn(task[t].hist)
    \/ \E i \in 1..Len(task[t].hist) :
           /\ ~task[t].hist[i].ok
           /\ task[t].hist[i].kind # "partners.list"

\* C4, amended: every tool call in every server, and every resource read in
\* dv360_server.py and server_minimal.py, ends by returning a text whatever
\* failed; a resource read in server.py that fails ends by raising.
C4_OnlyPackageReadRaises ==
    \A t \in Tasks :
        (Done(t) /\ task[t].call.via # "client")
            => IF ResourceRead(t) /\ task[t].call.server = "package"
               THEN (task[t].out.eff = "raise") <=> PackageReadFails(t)
               ELSE task[t].out.eff = "ret"

\* a resource read of dv360_server.py during which an await failed has
\* answered with a text
C4_Witness ==
    \E t \in Tasks :
        /\ Done(t) /\ ResourceRead(t)
        /\ task[t].call.server = "standalone"
        /\ FailedIn(task[t].hist)
        /\ task[t].out.eff = "ret"

\* the identifier pause_line_item accepts: advertisers/<id>/lineItems/<id>
WellFormedArgs(t) ==
    (task[t].call.name = "pause_line_item" /\ "line_item_id" \in DOMAIN task[t].call.args)
        => Len(Split(task[t].call.args["line_item_id"])) >= 4

\* C5: a call of a tool of the server.py catalog with every required
\* argument present and no failed await ends by returning a text that is
\* neither an error text nor an unknown-tool text.
C5_CatalogToolSucceeds ==
    \A t \in Tasks :
        (/\ Done(t) /\ ToolCall(t) /\ InCatalog(t)
         /\ task[t].call.server = "package"
         /\ MissingKeys(t) = {}
         /\ WellFormedArgs(t)
         /\ ~FailedIn(task[t].hist))
            => /\ task[t].out.eff = "ret"
               /\ \A i \in 1..Len(task[t].out.val) :
                      /\ ~IsErrorText(task[t].out.val[i])
                      /\ ~SaysUnknown(task[t].out.val[i])

\* requests go through the memoized handle
ThroughHandle ==
    \A t \in Tasks : \A i \in 1..Len(task[t].hist) :
        task[t].hist[i].ok
            => /\ task[t].hist[i].handle # None
               /\ task[t].hist[i].handle = service[task[t].hist[i].client]

\* no build starts and the handle stays once a client has a handle
NoRebuild ==
    \A c \in Clients :
        service[c] # None => service'[c] = service[c] /\ builds'[c] = builds[c]

\* C9: once a build has succeeded on a client, the operations that follow,
\* one at a time, start no further build on it and issue every request
\* through the handle that build returned.
C9_HandleBuiltOnce == []ThroughHandle /\ [][NoRebuild]_vars

\* a second request was served with the handle the first one built
C9_Witness ==
    \E t \in Tasks :
        /\ Done(t) /\ calls = 2
        /\ builds["dv360"] = 1
        /\ \E i \in 1..Len(task[t].hist) :
               /\ task[t].hist[i].eff = "svc"
               /\ task[t].hist[i].ok /\ ~task[t].hist[i].built
        /\ \E i \in 1..Len(task[t].hist) :
               /\ task[t].hist[i].eff = "req"
               /\ task[t].hist[i].ok /\ task[t].hist[i].handle = service["dv360"]

\* what a request ended with tells the exception: it raised it, or it
\* returned a text (a tool call: a list of texts) that quotes its message
Reports(t, x) ==
    \/ task[t].out.eff = "raise" /\ task[t].out.exc = x
    \/ /\ task[t].out.eff = "ret"
       /\ IF ToolCall(t)
          THEN \E i \in 1..Len(task[t].out.val) : Quotes(task[t].out.val[i], x.msg)
          ELSE Quotes(task[t].out.val, x.msg)

\* C10: a failed handle build is the last thing the operation that asked
\* for the handle awaits: the build was attempted once, no second one is
\* started, the operation ends, and what its caller gets tells the failure.
C10_BuildFailureReportedOnce ==
    \A t \in Tasks : \A i \in 1..Len(task[t].hist) :
        (task[t].hist[i].eff = "svc" /\ ~task[t].hist[i].ok)
            => /\ i = Len(task[t].hist)
               /\ Cardinality({j \in 1..Len(task[t].hist) : task[t].hist[j].built}) = 1
               /\ task[t].pc \in {"run", "done"}
               /\ task[t].pc = "run" => Terminal(Pending(t))
               /\ Done(t) => Reports(t, task[t].hist[i].exc)

\* a tool call made with no credentials configured has answered
C10_Witness ==
    \E t \in Tasks :
        /\ Done(t) /\ ToolCall(t)
        /\ get_credentials_type(cfg) = "none"
        /\ Len(task[t].hist) = 1
        /\ task[t].hist[1].eff = "svc" /\ ~task[t].hist[1].ok /\ task[t].hist[1].built
        /\ Reports(t, ValueError(<<"No valid credentials configured">>))

---------------------------------------------------------------------------
(* Properties of the start-up (specification SpecStartup).                 *)

\* an outcome of the handle build failing for lack of credentials
NoCredentialsFailure(o) ==
    /\ o.eff = "svc"
    /\ ~o.ok
    /\ o.exc = ValueError(<<"No valid credentials configured">>)

\* a served request met nothing but the failed build, and met it at its
\* first await
OnlyTheBuildFailed(t) ==
    /\ Len(task[t].hist) <= 1
    /\ \A i \in 1..Len(task[t].hist) : NoCredentialsFailure(task[t].hist[i])
    /\ task[t].pc = "run" => Pending(t).eff # "req"

C11_State ==
    /\ (NoCredentials(env) /\ ~IntFails(env)) => server # "crashed"
    /\ server = "crashed" => IntFails(env)
    /\ (server = "serving" /\ NoCredentials(env)) =>
           \A t \in Tasks : OnlyTheBuildFailed(t)
    /\ (server = "serving" /\ calls < MaxCalls /\ \A t \in Tasks : task[t].pc = "idle")
           => ENABLED StartServing(1)

C11_Step ==
    /\ (server = "absent" /\ server' # "absent") =>
           /\ builds' = builds
           /\ service' = [c \in Clients |-> None]
           /\ task' = task
    /\ server = "serving" => server' = "serving"

---------------------------------------------------------------------------
(* The handle across a failed call (specification Spec).                   *)

\* a tool call has answered with the text of an except clause
FailedToolCall(t) ==
    /\ Done(t) /\ ToolCall(t)
    /\ task[t].out.eff = "ret"
    /\ \E i \in 1..Len(task[t].out.val) : IsErrorText(task[t].out.val[i])

\* the call built the handle of client c
BuiltIn(t, c) ==
    \E i \in 1..Len(task[t].hist) :
        /\ task[t].hist[i].eff = "svc" /\ task[t].hist[i].client = c
        /\ task[t].hist[i].ok /\ task[t].hist[i].built
        /\ task[t].hist[i].handle = service[c]

\* the handle build of client c failed in the call
BuildFailedIn(t, c) ==
    \E i \in 1..Len(task[t].hist) :
        /\ task[t].hist[i].eff = "svc" /\ task[t].hist[i].client = c
        /\ ~task[t].hist[i].ok

\* C12 as stated: a failed tool call leaves every memoized handle as it was
\* when the call started.
C12_FailedCallLeavesHandle ==
    \A t \in Tasks : FailedToolCall(t) => service = task[t].before

\* C12: a tool call never clears or replaces a handle that was set when it
\* started; a failed tool call whose build failed leaves the handle unset;
\* a failed tool call leaves a handle different from the one it started with
\* only when the handle was unset and the call's own build succeeded before
\* a later step failed, and then that built handle stays memoized.
C12_FailedCallHandleFrame ==
    \A t \in Tasks : \A c \in Clients :
        /\ (task[t].pc # "idle" /\ task[t].before[c] # None)
               => service[c] = task[t].before[c]
        /\ (FailedToolCall(t) /\ BuildFailedIn(t, c))
               => service[c] = None /\ task[t].before[c] = None
        /\ (FailedToolCall(t) /\ service[c] # task[t].before[c])
               => task[t].before[c] = None /\ BuiltIn(t, c)

\* a tool call started with no handle, built one, failed at a remote
\* request, and the handle it built is memoized
C12_Witness ==
    \E t \in Tasks :
        /\ FailedToolCall(t)
        /\ task[t].before["dv360"] = None
        /\ service["dv360"] # None
        /\ BuiltIn(t, "dv360")
        /\ \E i \in 1..Len(task[t].hist) :
               task[t].hist[i].eff = "req" /\ ~task[t].hist[i].ok

\* no request follows a failed request in the same call, and none is about
\* to be issued
NoReissue(t) ==
    \A i \in 1..Len(task[t].hist) :
        (task[t].hist[i].eff = "req" /\ ~task[t].hist[i].ok)
            => /\ \A j \in (i + 1)..Len(task[t].hist) : task[t].hist[j].eff # "req"
               /\ task[t].pc = "run" => Pending(t).eff # "req"

\* a request waited for longer than timeout_seconds is still awaited and can
\* still return its body
NoDeadline(t) ==
    (task[t].pc = "run" /\ elapsed > settings.timeout_seconds) =>
        \A p \in {Pending(t)} : p.eff = "req" => ENABLED RequestReturns(t, p)

\* a request fails only with what request.execute() raised
OnlyRemoteFailures(t) ==
    \A i \in 1..Len(task[t].hist) :
        (task[t].hist[i].eff = "req" /\ ~task[t].hist[i].ok)
            => task[t].hist[i].exc = HttpError

\* C13: within one call a failed remote request is never issued again,
\* whatever max_retries is, so no request is issued more than once; and
\* timeout_seconds bounds no request: one waited for longer is still awaited,
\* can still succeed, and fails only with the remote failure.
C13_NoRetryNoTimeout ==
    \A t \in Tasks : NoReissue(t) /\ NoDeadline(t) /\ OnlyRemoteFailures(t)

\* with max_retries 3, a call whose only request was waited for beyond
\* timeout_seconds and then failed has ended
C13_Witness ==
    \E t \in Tasks :
        /\ Done(t)
        /\ settings.max_retries > 0
        /\ elapsed > settings.timeout_seconds
        /\ Cardinality({i \in 1..Len(task[t].hist) : task[t].hist[i].eff = "req"}) = 1
        /\ task[t].hist[Len(task[t].hist)].eff = "req"
        /\ ~task[t].hist[Len(task[t].hist)].ok

---------------------------------------------------------------------------
(* Properties of the filters and the summary (specification SpecPure).     *)

Applied(method) == output # NoOutput /\ input.method = method

\* the k-th smallest member of a set of positions
Nth(S, k) == CHOOSE i \in S : Cardinality({j \in S : j < i}) = k - 1

\* the entries of listing L at the positions Keep, in L's order
Kept(L, Keep) == [k \in 1..Cardinality(Keep) |-> L[Nth(Keep, k)]]

\* the positions of L whose entry has the active status
ActivePositions(L) ==
    {i \in 1..Len(L) : "status" \in DOMAIN L[i] /\ L[i].status = ACTIVE}

\* the kinds of the requests a run issued, in order
RequestKinds(h) ==
    LET reqs == SelectSeq(h, LAMBDA o : o.eff = "req")
    IN  [i \in 1..Len(reqs) |-> reqs[i].kind]

\* C14: applied to any campaign listing, the empty one and ones with
\* campaigns that have no status included, list_active_campaigns returns
\* exactly the entries whose entityStatus is ENTITY_STATUS_ACTIVE, in the
\* listing's order, after one unfiltered campaign listing request.
C14_ActiveFilterExact ==
    Applied("list_active_campaigns") =>
        /\ output.out =
               Ret(ListVal(Kept(input.resp.campaigns,
                                ActivePositions(input.resp.campaigns))))
        /\ RequestKinds(output.hist) = <<"campaigns.list">>

\* a listing of a campaign without status followed by an active one gave
\* the active one alone
C14_Witness ==
    /\ Applied("list_active_campaigns")
    /\ Len(input.resp.campaigns) = 2
    /\ "status" \notin DOMAIN input.resp.campaigns[1]
    /\ input.resp.campaigns[2].id = "c1"
    /\ output.out.val.items = <<input.resp.campaigns[2]>>

\* the text occurs in the other, both taken in lower case
OccursLowered(needle, hay) ==
    \E k \in 0..Len(hay) :
        /\ k + Len(needle) <= Len(hay)
        /\ \A i \in 1..Len(needle) : LowerChar(hay[k + i]) = LowerChar(needle[i])

\* the positions of L whose display name has the term, case ignored; an
\* entry without a display name has the empty name
MatchingPositions(L, term) ==
    {i \in 1..Len(L) :
        IF "name" \in DOMAIN L[i]
        THEN OccursLowered(Chars(term), Chars(L[i].name))
        ELSE term = ""}

\* C15: applied to any campaign listing and search term, search_campaigns
\* returns exactly the entries whose display name contains the term, both
\* in lower case, in the listing's order whatever that order is; an entry
\* without display name is returned only for the empty term; the listing is
\* requested once, unfiltered.
C15_SearchExact ==
    Applied("search_campaigns") =>
        /\ output.out =
               Ret(ListVal(Kept(input.resp.campaigns,
                                MatchingPositions(input.resp.campaigns, input.term))))
        /\ RequestKinds(output.hist) = <<"campaigns.list">>

\* the upper-case term SPRING found "SPRING" and "Spring Sale", listed in
\* that order, and came back in that order
C15_Witness ==
    /\ Applied("search_campaigns")
    /\ input.term = "SPRING"
    /\ Len(input.resp.campaigns) = 2
    /\ input.resp.campaigns[1].id = "c3"
    /\ input.resp.campaigns[2].id = "c1"
    /\ output.out.val.items = input.resp.campaigns

\* the advertiser is among the listed ones, so the four listings are asked for
AdvertiserListed ==
    \E i \in 1..Len(input.resp.advertisers) : input.resp.advertisers[i].id = input.adv

\* C16: when the advertiser is listed and the campaign, insertion order,
\* line item and creative listings all succeed, get_advertiser_summary
\* returns the counts equal to the sizes of those listings, active_campaigns
\* counting the campaigns with the active status, and as recent_campaigns
\* the first entries of the campaign listing, at most 5.
C16_SummaryCounts ==
    (Applied("get_advertiser_summary") /\ AdvertiserListed) =>
        /\ output.out.eff = "ret"
        /\ output.out.val.kind = "summary"
        /\ output.out.val.total_campaigns = Len(input.resp.campaigns)
        /\ output.out.val.active_campaigns =
               Cardinality(ActivePositions(input.resp.campaigns))
        /\ output.out.val.insertion_orders = Len(input.resp.insertionOrders)
        /\ output.out.val.line_items = Len(input.resp.lineItems)
        /\ output.out.val.creatives = Len(input.resp.creatives)
        /\ Len(output.out.val.recent_campaigns) <= 5
        /\ \A i \in 1..Len(input.resp.campaigns) :
               i <= 5 => /\ i <= Len(output.out.val.recent_campaigns)
                         /\ output.out.val.recent_campaigns[i] = input.resp.campaigns[i]

\* six campaigns were listed and five of them came back as recent ones,
\* with two insertion orders, five line items and no creative counted
C16_Witness ==
    /\ Applied("get_advertiser_summary")
    /\ AdvertiserListed
    /\ Len(input.resp.campaigns) = 6
    /\ output.out.val.total_campaigns = 6
    /\ Len(output.out.val.recent_campaigns) = 5
    /\ output.out.val.insertion_orders = 2
    /\ output.out.val.line_items = 5
    /\ output.out.val.creatives = 0

---------------------------------------------------------------------------
(* The two summaries (specification Spec).                                 *)

\* the slot serves a tool call of this name that passes the key
Serves(t, name, key) ==
    /\ task[t].pc \in {"run", "done"}
    /\ ToolCall(t)
    /\ task[t].call.server \in {"package", "standalone"}
    /\ task[t].call.name = name
    /\ key \in DOMAIN task[t].call.args

\* the four listings get_advertiser_summary asks for
FanOutKinds == {"campaigns.list", "insertionOrders.list", "lineItems.list",
                "creatives.list"}

\* the positions of the history at which one of the four listings failed
FailedFanOut(h) ==
    {i \in 1..Len(h) : h[i].eff = "req" /\ ~h[i].ok /\ h[i].kind \in FanOutKinds}

\* the value is a mapping with the error field alone, holding the message
OnlyError(v, msg) == v = ErrVal(msg) /\ DOMAIN v = {"kind", "msg"}

\* what the client method of the slot's call has come to
SummaryResult(t) ==
    get_advertiser_summary(task[t].call.args["advertiser_id"], task[t].hist)

\* C17: once one of the campaign, insertion order, line item or creative
\* listings of get_advertiser_summary has failed, the method has returned,
\* not raised, a mapping with the error field alone, which holds the
\* failure's message; it returns no counts, and the handler shows the
\* message as an error text.
C17_SummaryFailureIsErrorOnly ==
    \A t \in Tasks :
        (Serves(t, "get_advertiser_summary", "advertiser_id")
         /\ FailedFanOut(task[t].hist) # {}) =>
            \A i \in FailedFanOut(task[t].hist) :
                /\ i = Len(task[t].hist)
                /\ SummaryResult(t).eff = "ret"
                /\ OnlyError(SummaryResult(t).val, task[t].hist[i].exc.msg)
                /\ Done(t) => /\ task[t].out.eff = "ret"
                              /\ \E k \in 1..Len(task[t].out.val) :
                                     Quotes(task[t].out.val[k], task[t].hist[i].exc.msg)

\* the campaign and insertion order listings had succeeded when the line
\* item listing failed, and the call answered with the error
C17_Witness ==
    \E t \in Tasks :
        /\ Done(t)
        /\ Serves(t, "get_advertiser_summary", "advertiser_id")
        /\ \E i \in FailedFanOut(task[t].hist) : task[t].hist[i].kind = "lineItems.list"
        /\ \E i \in 1..Len(task[t].hist) :
               /\ task[t].hist[i].eff = "req" /\ task[t].hist[i].ok
               /\ task[t].hist[i].kind = "campaigns.list"
               /\ Len(task[t].hist[i].resp) > 0
        /\ SummaryResult(t).val.kind = "error"

\* the slot's call has just been answered its query-creation request
QueryCreated(t) ==
    /\ Len(task[t].hist) > 0
    /\ task[t].hist[Len(task[t].hist)].eff = "req"
    /\ task[t].hist[Len(task[t].hist)].kind = "queries.create"
    /\ task[t].hist[Len(task[t].hist)].ok

ServesPerformanceSummary(t) ==
    /\ Serves(t, "get_campaign_performance_summary", "advertiser_id")
    /\ "campaign_id" \in DOMAIN task[t].call.args

\* what the client method of the call does next
SummaryOutcome(t) ==
    get_campaign_performance_summary(task[t].call.args["advertiser_id"],
                                     task[t].call.args["campaign_id"], task[t].hist)

C18_State ==
    \A t \in Tasks :
        ServesPerformanceSummary(t) =>
            /\ RequestKinds(task[t].hist) \in
                   {<<>>, <<"campaigns.get">>, <<"campaigns.get", "queries.create">>}
            /\ QueryCreated(t) =>
                   /\ SummaryOutcome(t).eff = "ret"
                   /\ SummaryOutcome(t).val.report_query_id
                          = DictGet(task[t].hist[Len(task[t].hist)].resp, "queryId", Unset)
            /\ (Done(t) /\ ~FailedIn(task[t].hist)) => QueryCreated(t)

C18_Step ==
    \A t \in Tasks :
        (ServesPerformanceSummary(t) /\ QueryCreated(t) /\ task[t].pc = "run") =>
            /\ task'[t].pc = "done"
            /\ task'[t].hist = task[t].hist

\* C18: get_campaign_performance_summary issues the campaign lookup and then,
\* once, the query-creation request, and no other request (no report
\* listing, no query status); the step that follows the creation's answer
\* is the return of the result, which holds the created query's identifier.
C18_ReturnsAfterOneCreation == []C18_State /\ [][C18_Step]_vars

\* the call returned with the identifier q1 after the two requests
C18_Witness ==
    \E t \in Tasks :
        /\ Done(t)
        /\ ServesPerformanceSummary(t)
        /\ QueryCreated(t)
        /\ RequestKinds(task[t].hist) = <<"campaigns.get", "queries.create">>
        /\ SummaryOutcome(t).val.report_query_id = "q1"

---------------------------------------------------------------------------
(* Report data (specification Spec).                                       *)

ServesReportData(t) ==
    /\ task[t].pc \in {"run", "done"}
    /\ task[t].call.via = "client"
    /\ task[t].call.name = "get_report_data"

\* the value has an error field
HasError(v) == v.kind = "error"

\* both requests were answered and the report listing is empty
NoReports(h) ==
    /\ Len(h) = 3
    /\ \A i \in 1..3 : h[i].ok
    /\ h[3].kind = "reports.list"
    /\ h[3].resp = <<>>

\* C19: get_report_data, when the query lookup and the report listing
\* succeed and the listing is empty, returns a mapping whose status is
\* 'No report data available yet' and that has no error field; when it
\* returns a mapping with an error field, a remote request of the call has
\* failed and the field holds that failure's message.
C19_EmptyReportListIsNotAnError ==
    \A t \in Tasks :
        (ServesReportData(t) /\ Done(t)) =>
            /\ NoReports(task[t].hist) =>
                   /\ task[t].out.eff = "ret"
                   /\ ~HasError(task[t].out.val)
                   /\ task[t].out.val.status = "No report data available yet"
            /\ (task[t].out.eff = "ret" /\ HasError(task[t].out.val)) =>
                   \E i \in 1..Len(task[t].hist) :
                       /\ task[t].hist[i].eff = "req" /\ ~task[t].hist[i].ok
                       /\ task[t].out.val.msg = task[t].hist[i].exc.msg

\* the report listing of the query came back empty and the call returned
\* the status
C19_Witness ==
    \E t \in Tasks :
        /\ ServesReportData(t) /\ Done(t)
        /\ NoReports(task[t].hist)
        /\ task[t].out.val.status = "No report data available yet"

---------------------------------------------------------------------------
(* The handle under overlapping requests (specification SpecConcurrent).   *)

\* the slot's operation was given a handle of client c that its own build
\* returned
BuiltOwn(t, c) ==
    \E i \in 1..Len(task[t].hist) :
        /\ task[t].hist[i].eff = "svc" /\ task[t].hist[i].client = c
        /\ task[t].hist[i].ok /\ task[t].hist[i].built
        /\ task[t].hist[i].handle = task[t].bid

\* an operation that asks for the handle while none is stored can start its
\* build, whatever the other operations are doing
C20_State ==
    \A t \in Slots :
        task[t].pc = "run" =>
            \A p \in {Pending(t)} :
                (p.eff = "svc" /\ service[p.client] = None)
                    => ENABLED BuildBegins(t, p)

\* a build is started only while no handle is stored, and a finished build
\* stores its own handle
C20_Step ==
    \A c \in Clients :
        /\ builds'[c] > builds[c] => service[c] = None /\ builds'[c] = builds[c] + 1
        /\ service'[c] # service[c] =>
               \E t \in Slots : task[t].pc = "build" /\ service'[c] = task[t].bid

\* C20: an operation that asks for the handle while none is stored starts a
\* build of its own even when another operation's build is in flight; builds
\* start only while no handle is stored and each build that returns stores
\* its handle, so two operations started before any handle is stored can
\* build twice and hold different handle objects.
C20_ConcurrentFirstUseBuildsTwice == []C20_State /\ [][C20_Step]_vars

\* two operations on the BidManagerClient, both started with no handle
\* stored, each ran its own build: two builds, two different handles
C20_Witness ==
    /\ builds["bid_manager"] = 2
    /\ task[1].before["bid_manager"] = None
    /\ task[2].before["bid_manager"] = None
    /\ BuiltOwn(1, "bid_manager")
    /\ BuiltOwn(2, "bid_manager")
    /\ task[1].bid # task[2].bid
    /\ service["bid_manager"] \in {task[1].bid, task[2].bid}

---------------------------------------------------------------------------
(* Properties of the report operations (specification SpecReports).        *)

\* the report of a listing that was created last
Newest(reports) ==
    CHOOSE r \in Range(reports) : \A q \in Range(reports) : q.created <= r.created

\* the call's report listing was answered with at least one report
ReportsListed(h) ==
    /\ Len(h) = 3
    /\ h[3].kind = "reports.list" /\ h[3].ok
    /\ h[3].resp # <<>>

\* C21: when the report listing of a query holds several reports,
\* get_report_data returns the report id, the metadata and the storage
\* location of the report created last, in whatever order the listing
\* holds the reports.
C21_NewestReportWhateverTheOrder ==
    \A t \in Tasks :
        (ServesReportData(t) /\ Done(t) /\ ReportsListed(task[t].hist)) =>
            /\ task[t].out.eff = "ret"
            /\ task[t].out.val.report_id = Newest(task[t].hist[3].resp).id
            /\ task[t].out.val.metadata.created = Newest(task[t].hist[3].resp).created
            /\ task[t].out.val.google_cloud_storage_path
                   = Newest(task[t].hist[3].resp).path

\* slot t runs get_campaign_performance_metrics or
\* get_advertiser_performance_summary
ServesPerformance(t) ==
    /\ task[t].call.via = "client"
    /\ task[t].call.name \in {"get_campaign_performance_metrics",
                              "get_advertiser_performance_summary"}

\* what the operation awaited, in order: the handle, a request by its kind,
\* the sleep
Steps(h) == [i \in 1..Len(h) |-> IF h[i].eff = "req" THEN h[i].kind ELSE h[i].eff]

\* creation, sleep and fetch, each once
PerformanceSteps ==
    <<"svc", "queries.create", "sleep", "svc", "queries.get", "reports.list">>

\* the query was created and the response names it
Created(h) ==
    /\ Len(h) >= 2
    /\ h[2].kind = "queries.create" /\ h[2].ok
    /\ Truthy(DictGet(h[2].resp, "queryId", Unset))

\* C22: get_campaign_performance_metrics and
\* get_advertiser_performance_summary await, in this order, one query
\* creation, one sleep of the fixed length and one report fetch (the query
\* lookup and the report listing): the sleep follows the creation with no
\* request in between, and after the one report listing the operation ends,
\* whether the listing holds a report or not.
C22_CreateSleepFetchOnce ==
    \A t \in Tasks :
        ServesPerformance(t) =>
            /\ \E n \in 0..Len(PerformanceSteps) :
                   Steps(task[t].hist) = SubSeq(PerformanceSteps, 1, n)
            /\ Len(task[t].hist) >= 3 => task[t].hist[3].body.secs = SleepSeconds
            /\ (task[t].pc = "run" /\ Len(task[t].hist) = 2 /\ Created(task[t].hist))
                   => Pending(t) = Sleep(SleepSeconds)
            /\ (task[t].pc = "run" /\ Len(task[t].hist) = Len(PerformanceSteps))
                   => Terminal(Pending(t))

\* an operation has ended after creation, sleep and a report listing that
\* held no report
C22_Witness ==
    \E t \in Tasks :
        /\ ServesPerformance(t) /\ Done(t)
        /\ Steps(task[t].hist) = PerformanceSteps
        /\ \A i \in 1..Len(task[t].hist) : task[t].hist[i].ok
        /\ task[t].hist[6].resp = <<>>
        /\ task[t].out.eff = "ret"
        /\ task[t].out.val.data.status = "No report data available yet"

\* slot t runs one of the three performance operations of BidManagerClient
ServesAnyPerformance(t) ==
    \/ ServesPerformance(t)
    \/ /\ task[t].call.via = "client"
       /\ task[t].call.name = "get_line_item_performance"

\* the query creation was answered with a body that names no query
CreatedNameless(h) ==
    /\ Len(h) >= 2
    /\ h[2].kind = "queries.create" /\ h[2].ok
    /\ ~Truthy(DictGet(h[2].resp, "queryId", Unset))

\* C28: no query lookup and no report listing is issued with an absent
\* query identifier: in each of the three performance operations a creation
\* response without a query identifier ends the operation with an error
\* result, before any sleep and any report fetch.
C28_NoFetchWithoutQueryId ==
    \A t \in Tasks :
        ServesAnyPerformance(t) =>
            /\ \A i \in 1..Len(task[t].hist) :
                   task[t].hist[i].kind \in {"queries.get", "reports.list"}
                       => Truthy(task[t].hist[i].body.queryId)
            /\ CreatedNameless(task[t].hist) =>
                   /\ Len(task[t].hist) = 2
                   /\ Done(t) => (task[t].out.eff = "ret" /\ HasError(task[t].out.val))

\* a request of the report fetch, which follows the sleep, failed
FetchFailed(h) == \E i \in 4..Len(h) : h[i].eff = "req" /\ ~h[i].ok

\* C29: in the three performance operations, once the query has been
\* created the result holds its identifier, and when a request of the
\* report fetch that follows fails the result itself has the error field:
\* the failure is not only inside the field that holds the report data.
C29_FetchFailureIsTopLevel ==
    \A t \in Tasks :
        (ServesAnyPerformance(t) /\ Done(t) /\ Created(task[t].hist)) =>
            /\ task[t].out.eff = "ret"
            /\ "query_id" \in DOMAIN task[t].out.val
            /\ task[t].out.val.query_id = task[t].hist[2].resp.queryId
            /\ FetchFailed(task[t].hist) => HasError(task[t].out.val)

---------------------------------------------------------------------------
(* How the servers render outcomes (specification Spec).                   *)

\* the text each server starts an error result with
Indicator(s) == IF s = "standalone" THEN CrossMark ELSE "Error: "

\* the handler ends before it calls the client: unknown tool, missing
\* method or missing argument
LookupFails(c) ==
    IF c.server = "package" THEN PackageLookup(c.name, c.args) # NoExc
    ELSE \/ c.name \notin StandaloneHandled
         \/ FirstMissing(StandaloneRequired(c.name), c.args) # Unset

\* the client method raised, or returned a mapping with the error field
Failed(e) == e.eff = "raise" \/ (e.eff = "ret" /\ e.val.kind = "error")

\* what the client method the handler called ended with
ClientOutcome(c, h) ==
    IF c.server = "package" THEN DV360Op(c.name, c.args, h)
    ELSE DV360Op(StandaloneMethod(c.name), c.args, h)

\* the tool call of slot t failed
FailureOutcome(t) ==
    \/ LookupFails(task[t].call)
    \/ Failed(ClientOutcome(task[t].call, task[t].hist))

\* C25: in server.py and in dv360_server.py the text of a tool call's result
\* begins with the server's error indicator exactly when the call failed,
\* a client result with an error field being a failure.
C25_FailuresCarryIndicator ==
    \A t \in Tasks :
        (Done(t) /\ ToolCall(t) /\ task[t].call.server \in {"package", "standalone"}) =>
            /\ task[t].out.eff = "ret"
            /\ FailureOutcome(t)
                   <=> task[t].out.val[1][1] = Indicator(task[t].call.server)

---------------------------------------------------------------------------
(* The filter parameter of the listing requests (specification SpecPure).  *)

\* the requests a run issued, in order
RequestsOf(h) == SelectSeq(h, LAMBDA o : o.eff = "req")

\* the run issued one request, of the kind, with or without a filter
OneRequestOf(h, kind, filter) ==
    /\ Len(RequestsOf(h)) = 1
    /\ RequestsOf(h)[1].kind = kind
    /\ RequestsOf(h)[1].filter = filter

\* C24: list_active_campaigns and search_campaigns each issue exactly one
\* campaign listing request, without a filter parameter; list_insertion_orders
\* and list_line_items_for_io issue one listing request that carries a
\* filter expression exactly when the optional campaign id, respectively
\* insertion order id, is given and is not empty.
C24_FilterSentWhenIdGiven ==
    /\ (Applied("list_active_campaigns") \/ Applied("search_campaigns"))
           => OneRequestOf(output.hist, "campaigns.list", FALSE)
    /\ Applied("list_insertion_orders")
           => OneRequestOf(output.hist, "insertionOrders.list",
                           input.term \notin {Unset, ""})
    /\ Applied("list_line_items_for_io")
           => OneRequestOf(output.hist, "lineItems.list",
                           input.term \notin {Unset, ""})

\* list_insertion_orders was called with an empty campaign id and sent no
\* filter
C24_Witness ==
    /\ Applied("list_insertion_orders")
    /\ input.term = ""
    /\ OneRequestOf(output.hist, "insertionOrders.list", FALSE)

---------------------------------------------------------------------------
(* The query of the campaign performance summary (specification Spec).     *)

\* the positions of h at which a request of the kind was awaited
RequestsAt(h, kind) == {i \in 1..Len(h) : h[i].eff = "req" /\ h[i].kind = kind}

\* the filters of a query body that name a campaign
CampaignFilters(body) ==
    {i \in 1..Len(body.filters) : body.filters[i].type = "FILTER_CAMPAIGN"}

\* C23: in get_campaign_performance_summary every query creation request
\* comes after a campaign details request that succeeded; when the details
\* request fails no query creation request is issued and the method returns
\* a mapping with the error field; the body of the created query has one
\* campaign filter, naming the campaign of the call, and the same six
\* metrics whatever the arguments.
C23_DetailsThenFixedQuery ==
    \A t \in Tasks :
        ServesPerformanceSummary(t) =>
            /\ \A i \in RequestsAt(task[t].hist, "queries.create") :
                   /\ \E j \in RequestsAt(task[t].hist, "campaigns.get") :
                          j < i /\ task[t].hist[j].ok
                   /\ task[t].hist[i].body.metrics = SummaryMetrics
                   /\ Cardinality(CampaignFilters(task[t].hist[i].body)) = 1
                   /\ \A k \in CampaignFilters(task[t].hist[i].body) :
                          task[t].hist[i].body.filters[k].value
                              = task[t].call.args["campaign_id"]
            /\ (\E j \in RequestsAt(task[t].hist, "campaigns.get") : ~task[t].hist[j].ok)
                   => /\ RequestsAt(task[t].hist, "queries.create") = {}
                      /\ SummaryOutcome(t) = Ret(ErrVal(HttpError.msg))

\* a call given a date range has created its query after the details
C23_Witness ==
    \E t \in Tasks :
        /\ ServesPerformanceSummary(t) /\ Done(t)
        /\ "date_range" \in DOMAIN task[t].call.args
        /\ RequestKinds(task[t].hist) = <<"campaigns.get", "queries.create">>
        /\ \A i \in RequestsAt(task[t].hist, "queries.create") :
               task[t].hist[i].body = SummaryQuery("adv1", "x")

---------------------------------------------------------------------------
(* Credential mode, validate() and the handle build (specification Spec).  *)

NoValidCredentials == ValueError(<<"No valid credentials configured">>)

\* C26: whenever validate() is true the credential mode is not none; and
\* with mode none everything a call awaits is a handle build that fails
\* with 'No valid credentials configured', so no remote request is issued.
\* (That a mode other than none does not make validate() true is the state
\* C26_ConverseFails.)
C26_NoneModeFailsAtBuild ==
    /\ validate(cfg, fs) => get_credentials_type(cfg) # "none"
    /\ get_credentials_type(cfg) = "none" =>
           \A t \in Tasks : \A i \in 1..Len(task[t].hist) :
               /\ task[t].hist[i].eff = "svc"
               /\ ~task[t].hist[i].ok
               /\ task[t].hist[i].exc = NoValidCredentials

\* with mode none a call has ended at its failed build
C26_Witness ==
    \E t \in Tasks :
        /\ get_credentials_type(cfg) = "none" /\ ~validate(cfg, fs)
        /\ Done(t)
        /\ Len(task[t].hist) >= 1
        /\ task[t].hist[1].exc = NoValidCredentials

\* the mode is service_account, validate() is false because the key file is
\* missing, and a call's build has failed for that reason
C26_ConverseFails ==
    \E t \in Tasks :
        /\ get_credentials_type(cfg) = "service_account" /\ ~validate(cfg, fs)
        /\ Done(t)
        /\ Len(task[t].hist) >= 1
        /\ task[t].hist[1].exc = FileNotFoundError

---------------------------------------------------------------------------
(* The advertiser lookup of the summary (specification SpecPure).          *)

\* the input tells the partners and the advertisers of each partner
ByPartner == "byPartner" \in DOMAIN input.resp

\* what list_advertisers is to return for the input: nothing when the
\* partner listing fails or is empty, else the advertisers of the partner
\* listed first
AdvertisersOfFirstPartner ==
    IF "partners.list" \in input.fails \/ input.resp.partners = <<>>
    THEN <<>>
    ELSE input.resp.byPartner[input.resp.partners[1].id]

Among(id, items) == \E i \in 1..Len(items) : items[i].id = id

C27_PartnerListingFailed ==
    /\ Applied("get_advertiser_summary") /\ ByPartner
    /\ "partners.list" \in input.fails
    /\ output.out = Ret(ErrVal(<<"Advertiser not found">>))

---------------------------------------------------------------------------
(* Pausing a line item (specification SpecPure).                           *)

\* how many parts '/' separates the identifier into
PartsOf(v) == Cardinality({i \in 1..Len(IdTokens(v)) : IdTokens(v)[i] = "/"}) + 1

\* C30: pause_line_item raises 'Invalid line item ID format' for an
\* identifier of fewer than four '/'-separated parts, before the handle is
\* asked for and before any request; for any other identifier it issues the
\* line item get request, then the patch request, and no patch when the get
\* fails; the patch names entityStatus as the only field to update and its
\* body is the line item as read with the status set to paused.
C30_PauseGetsThenPatches ==
    Applied("pause_line_item") =>
        /\ PartsOf(input.term) < 4 =>
               /\ output.out = Raise(ValueError(<<"Invalid line item ID format">>))
               /\ output.hist = <<>>
        /\ PartsOf(input.term) >= 4 =>
               /\ output.hist # <<>> /\ output.hist[1].eff = "svc"
               /\ "lineItems.get" \in input.fails =>
                      /\ RequestKinds(output.hist) = <<"lineItems.get">>
                      /\ output.out.eff = "raise"
               /\ "lineItems.get" \notin input.fails =>
                      /\ RequestKinds(output.hist) = <<"lineItems.get", "lineItems.patch">>
                      /\ output.hist[3].body.updateMask = "entityStatus"
                      /\ output.hist[3].body.body.status = PAUSED
                      /\ DOMAIN output.hist[3].body.body
                             = DOMAIN input.resp.item \cup {"status"}
                      /\ \A k \in DOMAIN input.resp.item \ {"status"} :
                             output.hist[3].body.body[k] = input.resp.item[k]

\* an active line item named by a four-part identifier was read and then
\* patched to paused
C30_Witness ==
    /\ Applied("pause_line_item")
    /\ input.term = "advertisers/adv1/lineItems/li1"
    /\ input.fails = {}
    /\ DictGet(input.resp.item, "status", Unset) = ACTIVE
    /\ RequestKinds(output.hist) = <<"lineItems.get", "lineItems.patch">>
    /\ output.hist[3].body.body = [input.resp.item EXCEPT !.status = PAUSED]
    /\ output.out.eff = "ret"

===========================================================================
